---- MODULE Spec2Model ----
(***************************************************************************)
(* Canvas wave grid of the radio player: the grid of points, the per-frame *)
(* update (noise wave + cursor velocity injection + spring), the frame     *)
(* loop, the pointer and resize handlers, init()/destroy(), and the        *)
(* WaveGrid start()/stop() loop of app.js.                                 *)
(*                                                                         *)
(* Numbers.  A JavaScript Number is modelled as a fixed-point integer,     *)
(* One units per 1.0, rounded to the nearest unit after every multiply or  *)
(* divide.  The finite range is [-MaxFinite, MaxFinite]; a result outside  *)
(* it overflows to PInf / NInf as an IEEE double does, and NaN is produced *)
(* and propagated by the IEEE rules (Inf - Inf, Inf * 0, any operand NaN). *)
(***************************************************************************)
EXTENDS Integers, Sequences, FiniteSets, TLC

\* ------------------------------------------------------------------------
\* JavaScript Number
\* ------------------------------------------------------------------------
One == 100

MaxFinite == 10000000

PInf == MaxFinite + 1
NInf == -(MaxFinite + 1)
NaN == MaxFinite + 2

Abs(n) == IF n < 0 THEN -n ELSE n

IsNaN(a) == a = NaN
IsInf(a) == a = PInf \/ a = NInf
IsFinite(a) == a >= -MaxFinite /\ a <= MaxFinite

\* n/d rounded to the nearest integer, halves away from zero (n, d exact, d > 0)
RoundDiv(n, d) ==
  LET q == Abs(n) \div d
      r == Abs(n) % d
      m == IF 2 * r >= d THEN q + 1 ELSE q
  IN IF n < 0 THEN -m ELSE m

\* an exact finite result brought into the representable range
Overflow(n) == IF n > MaxFinite THEN PInf ELSE IF n < -MaxFinite THEN NInf ELSE n

Sign(a) == IF a < 0 THEN -1 ELSE IF a > 0 THEN 1 ELSE 0

FNeg(a) == IF IsNaN(a) THEN NaN ELSE -a

FAdd(a, b) ==
  IF IsNaN(a) \/ IsNaN(b) THEN NaN
  ELSE IF IsInf(a) THEN (IF IsInf(b) /\ a # b THEN NaN ELSE a)
  ELSE IF IsInf(b) THEN b
  ELSE Overflow(a + b)

FSub(a, b) == FAdd(a, FNeg(b))

\* a * b for two fixed-point numbers; the product is formed only when it fits
FMul(a, b) ==
  IF IsNaN(a) \/ IsNaN(b) THEN NaN
  ELSE IF IsInf(a) \/ IsInf(b)
    THEN (IF a = 0 \/ b = 0 THEN NaN
          ELSE IF Sign(a) * Sign(b) > 0 THEN PInf ELSE NInf)
  ELSE IF a = 0 \/ b = 0 THEN 0
  ELSE IF Abs(b) > ((MaxFinite + 1) * One) \div Abs(a)
    THEN (IF Sign(a) * Sign(b) > 0 THEN PInf ELSE NInf)
  ELSE Overflow(RoundDiv(a * b, One))

\* a * (num/den) where num/den is a numeric literal of the source
FMulC(a, num, den) ==
  IF IsNaN(a) THEN NaN
  ELSE IF IsInf(a) THEN (IF num = 0 THEN NaN ELSE IF num > 0 THEN a ELSE -a)
  ELSE IF a = 0 \/ num = 0 THEN 0
  ELSE LET q == Abs(a) \div den
           r == Abs(a) % den
           sg == Sign(a) * Sign(num)
       IN IF q > (MaxFinite + 1) \div Abs(num)
          THEN (IF sg > 0 THEN PInf ELSE NInf)
          ELSE Overflow(sg * (q * Abs(num) + RoundDiv(r * Abs(num), den)))

\* a / b for a finite nonzero b (the only divisors of the code are literals)
FDiv(a, b) ==
  IF IsNaN(a) THEN NaN
  ELSE IF IsInf(a) THEN (IF b > 0 THEN a ELSE -a)
  ELSE Overflow(RoundDiv(a * One, Abs(b)) * Sign(b))

\* comparisons: every comparison with NaN is false
FLt(a, b) == ~IsNaN(a) /\ ~IsNaN(b) /\ a < b
FGt(a, b) == FLt(b, a)

\* Math.max / Math.min: NaN if either argument is NaN
MathMax(a, b) == IF IsNaN(a) \/ IsNaN(b) THEN NaN ELSE IF a > b THEN a ELSE b
MathMin(a, b) == IF IsNaN(a) \/ IsNaN(b) THEN NaN ELSE IF a < b THEN a ELSE b

\* largest r in lo..hi with r*r <= n
RECURSIVE SqrtSearch(_, _, _)
SqrtSearch(n, lo, hi) ==
  IF lo >= hi THEN lo
  ELSE LET mid == (lo + hi + 1) \div 2
       IN IF mid * mid <= n THEN SqrtSearch(n, mid, hi) ELSE SqrtSearch(n, lo, mid - 1)

\* Math.sqrt
MathSqrt(a) ==
  IF IsNaN(a) \/ a < 0 THEN NaN
  ELSE IF a = PInf THEN PInf
  ELSE LET n == a * One
           r == SqrtSearch(n, 0, 46340)
       IN IF n - r * r > r THEN r + 1 ELSE r

\* cos on [0, pi/2] by its Taylor polynomial through z^8
CosPoly(z) ==
  LET z2 == FMul(z, z)
      z4 == FMul(z2, z2)
      z6 == FMul(z4, z2)
      z8 == FMul(z4, z4)
  IN One - RoundDiv(z2, 2) + RoundDiv(z4, 24) - RoundDiv(z6, 720) + RoundDiv(z8, 40320)

\* pi and 2*pi in fixed point
PiFix == RoundDiv(314159 * One, 100000)
TwoPiFix == RoundDiv(628319 * One, 100000)

\* Math.cos: NaN for a non-finite argument, else reduced to [0, pi/2]
MathCos(a) ==
  IF ~IsFinite(a) THEN NaN
  ELSE LET m == Abs(a) % TwoPiFix
           h == IF m > PiFix THEN TwoPiFix - m ELSE m
       IN IF 2 * h > PiFix THEN -CosPoly(PiFix - h) ELSE CosPoly(h)

\* Math.sin(a) = cos(a - pi/2)
MathSin(a) ==
  IF ~IsFinite(a) THEN NaN ELSE MathCos(a - RoundDiv(PiFix, 2))

\* Math.ceil of a finite quotient w/d, as an integer count (d > 0)
CeilDiv(w, d) == -((-w) \div d)

\* ------------------------------------------------------------------------
\* Configuration (part_001, const config); fixed-point values
\* ------------------------------------------------------------------------
xGap == 12 * One
yGap == 18 * One
angleGain == 6 * One
waveAmpX == 0
waveAmpY == 12 * One
influenceRadius == 150 * One
maxCursorMoveY == 20 * One
audioAmplitudeMultiplier == 4 * One
\* 0.3
cursorXScale == 30
\* defaults of the tunables that the state variable config carries
DefaultTension == 3
DefaultFriction == 82
DefaultStrength == 120
\* the delay handleResize passes to setTimeout, in ms
ResizeDelay == 100

DefaultConfig ==
  [tension |-> DefaultTension, friction |-> DefaultFriction,
   cursorStrength |-> DefaultStrength, waveAmpX |-> waveAmpX, waveAmpY |-> waveAmpY]

\* window.devicePixelRatio || 1 and canvas.getBoundingClientRect() of a
\* full-window canvas
Dpr == One
RectLeft == 0
RectTop == 0

VARIABLES
  canvas,          \* module variable canvas is not null
  ctx,             \* module variable ctx is not null
  canvasDim,       \* <<canvas.width, canvas.height>>
  grid,            \* [rows, cols, points]
  pointer,         \* [x, y, velocityX, velocityY, isActive]
  config,          \* [tension, friction, cursorStrength, waveAmpX, waveAmpY]
  time,            \* accumulated animation time
  lastTime,        \* timestamp of the previous frame
  resizeTimeout,   \* handle of the last debounce timer (0: undefined)
  timers,          \* pending setTimeout callbacks: set of [id, due]
  rafPending,      \* animate callbacks requested and not yet run
  ptrListeners,    \* pointermove/pointerleave/pointerenter listener triples on the canvas
  resizeListener,  \* handleResize is registered on window
  inner,           \* <<window.innerWidth, window.innerHeight>>
  now,             \* host clock, ms
  isAnimating,     \* WaveGrid.isAnimating (app.js)
  animationFrameId,\* WaveGrid.animationFrameId (0: null)
  wgPending,       \* pending requestAnimationFrame ids of the WaveGrid loop
  wgTime,          \* WaveGrid.time in steps of 0.01
  op,              \* history: what ran last (init, destroy, timer, frame; event: any other)
  frames,          \* history: number of animate callbacks run
  gen,             \* history: allocation generation of the current grid
  hist,            \* history of the resize debounce
  currentTheme,    \* module variable currentTheme: the name draw looks up in themes
  simplex,         \* the SimplexNoise object of app.js: [perm, gradP] (0-based tables as sequences)
  noiseLog,        \* history: [at, value] of every noise call made on simplex
  stream,          \* the state one playStream call works on (app.js)
  cursor,          \* the cursor object of wave-grid.js: [x, y, lx, ly, sx, sy, v, vs, a, isActive]
  player           \* app.js across playStream calls: the audio elements made so far, the global audio, the wake lock

engineVars == <<canvas, ctx, canvasDim, grid, pointer, config, time, lastTime,
                resizeTimeout, timers, rafPending, ptrListeners, resizeListener,
                inner, now, frames, gen, hist>>
loopVars == <<isAnimating, animationFrameId, wgPending, wgTime>>
themeVars == <<currentTheme>>
noiseVars == <<simplex, noiseLog>>
streamVars == <<stream>>
cueVars == <<cursor>>
playerVars == <<player>>
vars == <<engineVars, loopVars, themeVars, noiseVars, streamVars, cueVars, playerVars, op>>

\* app.js as loaded: audio = null, wakeLock = null, no element created, no
\* wake-lock request made
NoPlayer ==
  [audio |-> 0, elements |-> <<>>, wakeLock |-> 0, held |-> {}, pending |-> 0,
   granted |-> 0, stopped |-> FALSE, status |-> ""]

\* the cursor object as the module is loaded
NoCursor ==
  [x |-> 0, y |-> 0, lx |-> 0, ly |-> 0, sx |-> 0, sy |-> 0,
   v |-> 0, vs |-> 0, a |-> 0, isActive |-> FALSE]

\* ------------------------------------------------------------------------
\* Grid (initGrid)
\* ------------------------------------------------------------------------
\* a || b of JavaScript for numbers: b when a is falsy (0 or NaN)
OrElse(a, b) == IF a = 0 \/ IsNaN(a) THEN b ELSE a

NewPoint(row, col, g) ==
  [baseX |-> col * xGap, baseY |-> row * yGap,
   currentX |-> col * xGap, currentY |-> row * yGap,
   cx |-> 0, cy |-> 0, cvx |-> 0, cvy |-> 0, gen |-> g]

\* the points pushed by the two nested loops, row-major
FreshPoints(rows, cols, g) ==
  LET n == IF rows > 0 /\ cols > 0 THEN rows * cols ELSE 0
  IN [k \in 1..n |-> NewPoint((k - 1) \div cols, (k - 1) % cols, g)]

\* mutant: grid.points is not emptied before the loops push
initGridKeepsOld(old, cdim, logicalWidth, logicalHeight, g) ==
  LET width == OrElse(logicalWidth, cdim[1])
      height == OrElse(logicalHeight, cdim[2])
      cols == CeilDiv(width, xGap) + 1
      rows == CeilDiv(height, yGap) + 1
  IN [rows |-> rows, cols |-> cols,
      points |-> old.points \o FreshPoints(rows, cols, g)]

\* mutant: the rebuilt points take over the spring state of the old points
initGridKeepsSpring(old, cdim, logicalWidth, logicalHeight, g) ==
  LET width == OrElse(logicalWidth, cdim[1])
      height == OrElse(logicalHeight, cdim[2])
      cols == CeilDiv(width, xGap) + 1
      rows == CeilDiv(height, yGap) + 1
      fresh == FreshPoints(rows, cols, g)
  IN [rows |-> rows, cols |-> cols,
      points |-> [k \in 1..Len(fresh) |->
                    IF k <= Len(old.points)
                    THEN [fresh[k] EXCEPT !.cx = old.points[k].cx,
                                          !.cy = old.points[k].cy,
                                          !.cvx = old.points[k].cvx,
                                          !.cvy = old.points[k].cvy]
                    ELSE fresh[k]]]

initGrid(old, cdim, logicalWidth, logicalHeight, g) ==
  LET width == OrElse(logicalWidth, cdim[1])
      height == OrElse(logicalHeight, cdim[2])
      cols == CeilDiv(width, xGap) + 1
      rows == CeilDiv(height, yGap) + 1
  IN [rows |-> rows, cols |-> cols, points |-> FreshPoints(rows, cols, g)]

\* ------------------------------------------------------------------------
\* Per-frame update (update)
\* ------------------------------------------------------------------------
\* Math.sqrt(dx * dx + dy * dy) from the point's base position to the pointer
Distance(p, ptr) ==
  LET dx == FSub(p.baseX, ptr.x)
      dy == FSub(p.baseY, ptr.y)
  IN MathSqrt(FAdd(FMul(dx, dx), FMul(dy, dy)))

\* mutant: the test distance > 0 is missing
InRangeWithZero(distance) == FLt(distance, influenceRadius)

\* the guard of the injection, for an active pointer: distance < radius && distance > 0
InRange(distance) == FLt(distance, influenceRadius) /\ FGt(distance, 0)

\* falloff * wobble * cursorStrength
Impulse(distance, cfg) ==
  LET normalizedDist == FDiv(distance, influenceRadius)
      falloff == FSub(One, FMul(normalizedDist, normalizedDist))
      wobble == FAdd(60, FMulC(MathCos(FMulC(distance, 15, 1000)), 40, 100))
  IN FMul(FMul(falloff, wobble), cfg.cursorStrength)

\* mutant: every point of an active pointer is injected, whatever its distance
InjectAnywhere(p, ptr, cfg, distance) ==
  IF ptr.isActive /\ FGt(distance, 0)
  THEN <<FAdd(p.cvx, FMul(ptr.velocityX, cfg.cursorStrength)),
         FAdd(p.cvy, FMul(ptr.velocityY, cfg.cursorStrength))>>
  ELSE <<p.cvx, p.cvy>>

\* the two += of the injection, by the impulse computed for the point
AddImpulse(p, ptr, impulse) ==
  <<FAdd(p.cvx, FMul(ptr.velocityX, impulse)), FAdd(p.cvy, FMul(ptr.velocityY, impulse))>>

\* mutant: the test of pointer.isActive is missing
InjectWhenInactive(p, ptr, cfg, distance) ==
  IF InRange(distance)
  THEN AddImpulse(p, ptr, Impulse(distance, cfg))
  ELSE <<p.cvx, p.cvy>>

\* the velocity after the injection block, <<cvx, cvy>>, for a point at the
\* given distance from the pointer
Inject(p, ptr, cfg, distance) ==
  IF ptr.isActive /\ InRange(distance)
  THEN AddImpulse(p, ptr, Impulse(distance, cfg))
  ELSE <<p.cvx, p.cvy>>

\* mutant: the friction multiply is missing
SpringVelocityNoFriction(v, c, cfg) == FAdd(v, FMul(FNeg(c), cfg.tension))

\* spring pull and friction on one velocity component
SpringVelocity(v, c, cfg) == FMul(FAdd(v, FMul(FNeg(c), cfg.tension)), cfg.friction)

\* mutant: only the upper side is clamped
ClampUpperOnly(c, m) == MathMin(m, c)

\* Math.max(-m, Math.min(m, c))
Clamp(c, m) == MathMax(-m, MathMin(m, c))

\* Math.pow(audioEnergy, 1.5) for a non-negative energy
AudioResponse(energy) == FMul(energy, MathSqrt(energy))

CurrentWaveAmpY(cfg, energy) ==
  FMul(cfg.waveAmpY, FAdd(One, FMul(AudioResponse(energy), audioAmplitudeMultiplier)))

\* mutant: the displaced position is written back into the base position
WritePointDrifts(p, cvx, cvy, cx, cy, waveX, waveY) ==
  [p EXCEPT !.cvx = cvx, !.cvy = cvy, !.cx = cx, !.cy = cy,
            !.baseX = FAdd(FAdd(p.baseX, waveX), FMul(cx, cursorXScale)),
            !.baseY = FAdd(FAdd(p.baseY, waveY), cy),
            !.currentX = FAdd(FAdd(p.baseX, waveX), FMul(cx, cursorXScale)),
            !.currentY = FAdd(FAdd(p.baseY, waveY), cy)]

\* the fields update writes into a point: spring velocity, spring offset and
\* the final position
WritePoint(p, cvx, cvy, cx, cy, waveX, waveY) ==
  [p EXCEPT !.cvx = cvx, !.cvy = cvy, !.cx = cx, !.cy = cy,
            !.currentX = FAdd(FAdd(p.baseX, waveX), FMul(cx, cursorXScale)),
            !.currentY = FAdd(FAdd(p.baseY, waveY), cy)]

\* integrate and clamp: the offsets from the velocities after spring and friction
Integrate(p, cvx, cvy, waveX, waveY) ==
  WritePoint(p, cvx, cvy,
             Clamp(FAdd(p.cx, cvx), maxCursorMoveY), Clamp(FAdd(p.cy, cvy), maxCursorMoveY),
             waveX, waveY)

\* spring and friction on the velocities inj that the injection block leaves
Spring(p, inj, cfg, waveX, waveY) ==
  Integrate(p, SpringVelocity(inj[1], p.cx, cfg), SpringVelocity(inj[2], p.cy, cfg),
            waveX, waveY)

\* mutant: sine and cosine are exchanged
WaveSwapped(p, inj, cfg, t, ampY) ==
  Spring(p, inj, cfg, FMul(MathSin(t), cfg.waveAmpX), FMul(MathCos(t), ampY))

\* the wave displacement of the angle t
Wave(p, inj, cfg, t, ampY) ==
  Spring(p, inj, cfg, FMul(MathCos(t), cfg.waveAmpX), FMul(MathSin(t), ampY))

\* the body of the loop of update for one point; noise is the value that
\* simplex.noise2D returns for the point in this frame
UpdatePoint(p, ptr, cfg, noise, ampY) ==
  Wave(p, Inject(p, ptr, cfg, Distance(p, ptr)), cfg, FMul(angleGain, noise), ampY)

\* update(deltaTime): the new <<time, points>>
update(deltaTime, nz, energy) ==
  <<FAdd(time, FMulC(deltaTime, 1, 1000)),
    [i \in 1..Len(grid.points) |->
       UpdatePoint(grid.points[i], pointer, config, nz[i], CurrentWaveAmpY(config, energy))]>>

\* ------------------------------------------------------------------------
\* Render pass (draw)
\* ------------------------------------------------------------------------
\* the indices of grid.points that draw reads: row * cols (+ col) for every row
DrawReads(g) ==
  {row * g.cols + col : row \in 0..(g.rows - 1), col \in 0..(IF g.cols > 1 THEN g.cols - 1 ELSE 0)}

\* draw(context) completes: the context is not null and every read finds a point
DrawCompletes(context, g) ==
  /\ context
  /\ \A idx \in DrawReads(g) : idx + 1 \in DOMAIN g.points

\* ------------------------------------------------------------------------
\* Pointer handlers (initPointerTracking)
\* ------------------------------------------------------------------------
pointermove(ptr, clientX, clientY) ==
  LET newX == FSub(clientX, RectLeft)
      newY == FSub(clientY, RectTop)
  IN [x |-> newX, y |-> newY,
      velocityX |-> FSub(newX, ptr.x), velocityY |-> FSub(newY, ptr.y),
      isActive |-> TRUE]

\* the event is dispatched to every registered pointermove listener in turn
RECURSIVE Dispatch(_, _, _, _)
Dispatch(ptr, clientX, clientY, k) ==
  IF k = 0 THEN ptr ELSE Dispatch(pointermove(ptr, clientX, clientY), clientX, clientY, k - 1)

\* ------------------------------------------------------------------------
\* Resize (resize, handleResize)
\* ------------------------------------------------------------------------
\* what the canvas keeps of a number assigned to its width (fallback 300) or
\* height (fallback 150): an unsigned long, so NaN and the infinities become
\* 0, a fraction is dropped and a negative number gives the fallback
CanvasSize(v, fallback) ==
  IF ~IsFinite(v) THEN 0
  ELSE IF v < 0 THEN fallback
  ELSE (v \div One) * One

\* canvasElement.width = width * dpr; canvasElement.height = height * dpr
ResizedCanvas(dims) ==
  <<CanvasSize(FMul(dims[1], Dpr), 300 * One), CanvasSize(FMul(dims[2], Dpr), 150 * One)>>

\* resize(canvas, ctx): the grid rebuilt for the window's logical size
ResizedGrid(dims, g) == initGrid(grid, ResizedCanvas(dims), dims[1], dims[2], g)

\* the id setTimeout returns: one that no pending timer has
FreshTimerId(tm) ==
  CHOOSE id \in 1..(Cardinality(tm) + 1) :
    /\ \A t \in tm : t.id # id
    /\ \A j \in 1..(id - 1) : \E t \in tm : t.id = j

\* mutant: the previous timer is not cleared
handleResizeNoClear(rt, tm, delay) ==
  IF ~canvas \/ ~ctx THEN <<rt, tm>>
  ELSE LET id == FreshTimerId(tm)
       IN <<id, tm \cup {[id |-> id, due |-> now + delay]}>>

\* handleResize(): the new <<resizeTimeout, timers>>
handleResize(rt, tm, delay) ==
  IF ~canvas \/ ~ctx THEN <<rt, tm>>
  ELSE LET cleared == {t \in tm : t.id # rt}
           id == FreshTimerId(cleared)
       IN <<id, cleared \cup {[id |-> id, due |-> now + delay]}>>

\* ------------------------------------------------------------------------
\* Theme system (themes, setTheme)
\* ------------------------------------------------------------------------
\* the own properties of the object literal themes
DefinedThemes == {"default", "classicfm", "reprezent"}

\* names that every object literal inherits from Object.prototype
ObjectPrototypeKeys == {"constructor", "toString", "__proto__"}

\* themes[name]: a theme for an own property, the inherited member (truthy,
\* with neither background nor lineColor) for a name of Object.prototype,
\* undefined for any other name
ThemeLookup(name) ==
  IF name \in DefinedThemes
  THEN [truthy |-> TRUE, background |-> TRUE, lineColor |-> TRUE]
  ELSE IF name \in ObjectPrototypeKeys
       THEN [truthy |-> TRUE, background |-> FALSE, lineColor |-> FALSE]
       ELSE [truthy |-> FALSE, background |-> FALSE, lineColor |-> FALSE]

\* setTheme(themeName): the new currentTheme
setTheme(themeName) ==
  IF ThemeLookup(themeName).truthy THEN themeName ELSE "default"

\* const theme = themes[currentTheme] of draw
DrawTheme == ThemeLookup(currentTheme)

\* ------------------------------------------------------------------------
\* Noise (class SimplexNoise of app.js)
\* ------------------------------------------------------------------------
\* this.grad3
grad3 ==
  << <<1, 1, 0>>, <<-1, 1, 0>>, <<1, -1, 0>>, <<-1, -1, 0>>,
     <<1, 0, 1>>, <<-1, 0, 1>>, <<1, 0, -1>>, <<-1, 0, -1>>,
     <<0, 1, 1>>, <<0, -1, 1>>, <<0, 1, -1>>, <<0, -1, -1>> >>

\* sizes of this.p and of this.perm, this.gradP
PermSize == 256
TableSize == 512

\* new SimplexNoise(): random[i] is what Math.floor(Math.random() * 256)
\* gives for this.p[i]; gradP holds, for this.grad3[n], the index n
SimplexNoise(random) ==
  [perm |-> [i \in 1..TableSize |-> random[(i - 1) % PermSize]],
   gradP |-> [i \in 1..TableSize |-> random[(i - 1) % PermSize] % 12]]

\* before app.js has run
NoSimplex == [perm |-> <<>>, gradP |-> <<>>]

\* dot(g, x, y, z)
dot(g, x, y, z) == g[1] * x + g[2] * y + g[3] * z

\* Math.floor of a number, as an integer
MathFloor(a) == a \div One
\* n * G3 with G3 = 1/6
G3Times(n) == RoundDiv(n * One, 6)
\* (xin + yin + zin) * F3 with F3 = 1/3
Skew(xin, yin, zin) == FMulC(xin + yin + zin, 1, 3)

\* <<i1, j1, k1, i2, j2, k2>>: the simplex of the cell that holds (x0, y0, z0)
SimplexOrder(x0, y0, z0) ==
  IF x0 >= y0
  THEN (IF y0 >= z0 THEN <<1, 0, 0, 1, 1, 0>>
        ELSE IF x0 >= z0 THEN <<1, 0, 0, 1, 0, 1>>
        ELSE <<0, 0, 1, 1, 0, 1>>)
  ELSE (IF y0 < z0 THEN <<0, 0, 1, 0, 1, 1>>
        ELSE IF x0 < z0 THEN <<0, 1, 0, 0, 1, 1>>
        ELSE <<0, 1, 0, 1, 1, 0>>)

\* this.gradP[a + this.perm[b + this.perm[c]]]
HashedGradient(self, a, b, c) ==
  grad3[self.gradP[a + self.perm[b + self.perm[c + 1] + 1] + 1] + 1]

\* t * t * t * t * dot for t >= 0, else 0
Falloff(t, d) == IF t < 0 THEN 0 ELSE FMul(FMul(FMul(t, t), FMul(t, t)), d)

\* the contribution of one corner: t = 0.6 - x*x - y*y - z*z
Corner(g, x, y, z) ==
  Falloff(60 - FMul(x, x) - FMul(y, y) - FMul(z, z), dot(g, x, y, z))

\* the four contributions, summed and scaled
noiseCorners(self, ii, jj, kk, x0, y0, z0, o) ==
  32 * ( Corner(HashedGradient(self, ii, jj, kk), x0, y0, z0)
       + Corner(HashedGradient(self, ii + o[1], jj + o[2], kk + o[3]),
                x0 - o[1] * One + G3Times(1), y0 - o[2] * One + G3Times(1),
                z0 - o[3] * One + G3Times(1))
       + Corner(HashedGradient(self, ii + o[4], jj + o[5], kk + o[6]),
                x0 - o[4] * One + G3Times(2), y0 - o[5] * One + G3Times(2),
                z0 - o[6] * One + G3Times(2))
       + Corner(HashedGradient(self, ii + 1, jj + 1, kk + 1),
                x0 - One + G3Times(3), y0 - One + G3Times(3), z0 - One + G3Times(3)) )

\* the cell (i, j, k) and the position in it
noiseInCell(self, i, j, k, x0, y0, z0) ==
  noiseCorners(self, i % PermSize, j % PermSize, k % PermSize, x0, y0, z0,
               SimplexOrder(x0, y0, z0))

noiseUnskewed(self, xin, yin, zin, i, j, k, t) ==
  noiseInCell(self, i, j, k, xin - (i * One - t), yin - (j * One - t), zin - (k * One - t))

noiseSkewed(self, xin, yin, zin, i, j, k) ==
  noiseUnskewed(self, xin, yin, zin, i, j, k, FMulC((i + j + k) * One, 1, 6))

\* the value noise(xin, yin, zin) returns
noiseValue(self, xin, yin, zin, s) ==
  noiseSkewed(self, xin, yin, zin, MathFloor(xin + s), MathFloor(yin + s), MathFloor(zin + s))

\* mutant: a call advances the first entry of perm
noiseAdvancesPerm(self, xin, yin, zin) ==
  [value |-> noiseValue(self, xin, yin, zin, Skew(xin, yin, zin)),
   self |-> [self EXCEPT !.perm[1] = (@ + 1) % PermSize]]

\* noise(xin, yin, zin) on the object self: the value returned and the
\* object after the call, which assigns to no element of perm or gradP
noise(self, xin, yin, zin) ==
  [value |-> noiseValue(self, xin, yin, zin, Skew(xin, yin, zin)), self |-> self]

\* ------------------------------------------------------------------------
\* Audio stream (playStream of app.js and the listeners it attaches)
\* ------------------------------------------------------------------------
\* the fields of stream:
\*   pc           idle (playStream not called), resuming (suspended at
\*                await audioContext.resume()), running (playStream returned)
\*   urlAlt       urlAlt is truthy
\*   hasTriedAlt  the variable hasTriedAlt of the call
\*   audio        the element the global audio refers to: none, primary, alt
\*   audioContext the global audioContext exists
\*   sourceNode   the element the global sourceNode is connected to, or none
\*   status, playing   statusText.textContent and the class 'playing' of statusBar
\*   metadata     metadata updates are running
\*   session      navigator.mediaSession.playbackState
\*   played       play() promises not yet settled: <<element, handler of catch>>
\*   altCreated   history: number of new Audio(urlAlt)
\*   events       history: number of media events and promise rejections handled
NoStream ==
  [pc |-> "idle", urlAlt |-> FALSE, hasTriedAlt |-> FALSE, audio |-> "none",
   audioContext |-> FALSE, sourceNode |-> "none", status |-> "", playing |-> FALSE,
   metadata |-> FALSE, session |-> "none", played |-> {}, altCreated |-> 0, events |-> 0]

ConnectionError == "Connection error - Stream may be offline"

\* audio.play().catch(...): the promise is pending with its handler
Play(st, handler) == [st EXCEPT !.played = @ \cup {<<st.audio, handler>>}]

\* playStream(url, urlAlt) up to its await, or to its end when nothing is
\* awaited; webAudio tells how far the Web Audio set-up gets before it
\* throws (failed: no context; contextOnly: context, no source; connected),
\* suspended whether audioContext.state is 'suspended'
playStream(st, urlAlt, webAudio, suspended) ==
  LET context == st.audioContext \/ webAudio # "failed"
      set == [st EXCEPT !.urlAlt = urlAlt, !.hasTriedAlt = FALSE, !.audio = "primary",
                        !.metadata = FALSE, !.audioContext = context,
                        !.sourceNode = IF webAudio = "connected" THEN "primary" ELSE "none",
                        !.status = "Connecting...", !.playing = TRUE]
  IN IF context /\ suspended
     THEN [set EXCEPT !.pc = "resuming"]
     ELSE [Play(set, "log") EXCEPT !.pc = "running"]

\* playStream after its await: audio.play() on whatever audio now refers to
playStreamResumed(st) == [Play(st, "log") EXCEPT !.pc = "running"]

\* the else branch of the 'error' listener of the first element, and the
\* 'error' listener of the alternate element
ShowError(st) ==
  [st EXCEPT !.metadata = FALSE, !.status = ConnectionError, !.playing = FALSE,
             !.session = "none"]

\* the branch of the 'error' listener that switches to the alternate URL
TryAlternate(st, webAudio, tried) ==
  Play([st EXCEPT !.hasTriedAlt = tried,
                  !.status = "Trying alternative stream...", !.playing = TRUE,
                  !.audio = "alt", !.altCreated = @ + 1,
                  !.sourceNode = IF st.audioContext /\ webAudio THEN "alt" ELSE "none"],
       "bothFailed")

\* mutant: hasTriedAlt is not set
onErrorForgetsFlag(st, webAudio) ==
  IF st.urlAlt /\ ~st.hasTriedAlt THEN TryAlternate(st, webAudio, st.hasTriedAlt)
  ELSE ShowError(st)

\* the 'error' listener of the first element
onError(st, webAudio) ==
  IF st.urlAlt /\ ~st.hasTriedAlt THEN TryAlternate(st, webAudio, TRUE)
  ELSE ShowError(st)

\* the 'playing' listener of either element (a station is selected)
onPlaying(st) ==
  [st EXCEPT !.status = "Streaming live", !.playing = TRUE, !.metadata = TRUE,
             !.session = "playing"]

\* the 'waiting' listener of either element
onWaiting(st) == [st EXCEPT !.status = "Buffering...", !.playing = TRUE]

\* a play() promise rejects: its catch handler runs
onPlayRejected(st, p) ==
  IF p[2] = "bothFailed"
  THEN [st EXCEPT !.played = @ \ {p}, !.metadata = FALSE,
                  !.status = "Both streams failed", !.playing = FALSE]
  ELSE [st EXCEPT !.played = @ \ {p}]

\* the elements created so far
Elements(st) ==
  (IF st.pc # "idle" THEN {"primary"} ELSE {}) \cup (IF st.altCreated > 0 THEN {"alt"} ELSE {})

\* ------------------------------------------------------------------------
\* Bounds and inputs of the model
\* ------------------------------------------------------------------------
\* init() calls explored (each adds one frame loop and one listener triple)
MaxInits == 1
\* animate callbacks explored
MaxFrames == 2
\* last instant of the host clock, ms
MaxNow == 150
\* the clock advances in steps of half the debounce delay
TickMs == ResizeDelay \div 2

\* viewports <<innerWidth, innerHeight>>: 1x1 and 2x2 points
Viewports == {<<0, 0>>, <<xGap, yGap>>}

\* pointer positions <<clientX, clientY>>: on a point, exactly on the radius
\* of the point (0,0), and far off on either side
NearPositions == {<<0, 0>>, <<influenceRadius, 0>>}
FarPositions == {<<-90000 * One, -90000 * One>>, <<90000 * One, 90000 * One>>}

\* values of simplex.noise2D and of window.getAudioEnergy()
NoiseFields(n) == {[i \in 1..n |-> v] : v \in {0, One}}
CalmField(n) == {[i \in 1..n |-> 0]}
\* the one pointer position of the life-cycle specification: beside point (0,0)
BesidePositions == {<<xGap, 0>>}
Energies == {0}
\* frame timestamps of a display that refreshes every 16 ms
SteadyFrameTimes == {FAdd(lastTime, 16 * One)}

\* ------------------------------------------------------------------------
\* Engine operations
\* ------------------------------------------------------------------------
NoLoop == UNCHANGED loopVars

\* an operation of the engine that leaves everything but the engine's state alone
OnlyEngine == NoLoop /\ UNCHANGED <<themeVars, noiseVars, streamVars, cueVars, playerVars>>

\* history of the debounce: when the last resize notification was accepted,
\* how many notifications the pending timer has collapsed (up to 2), whether
\* a notification still waits for its rebuild, how many timer rebuilds have
\* run since the last notification (up to 2), and whether the grid that the
\* last build discarded held a displaced or moving point; and the deltaTime
\* that the last animate callback passed to update; and whether the last
\* pointer event was a pointerleave
NoHistory ==
  [lastNotify |-> 0, burst |-> 0, owed |-> FALSE, rebuilds |-> 0, discardedMoving |-> FALSE,
   elapsed |-> 0, left |-> FALSE]

Moving(g) ==
  \E i \in DOMAIN g.points :
     g.points[i].cx # 0 \/ g.points[i].cy # 0 \/ g.points[i].cvx # 0 \/ g.points[i].cvy # 0

\* window.waveGrid.init(canvasElement), for at most maxInits calls
InitUpTo(maxInits) ==
  /\ ptrListeners < maxInits
  /\ canvas' = TRUE
  /\ ctx' = TRUE
  /\ canvasDim' = ResizedCanvas(inner)
  /\ gen' = 1 - gen
  /\ grid' = ResizedGrid(inner, 1 - gen)
  /\ ptrListeners' = ptrListeners + 1
  /\ resizeListener' = TRUE
  /\ rafPending' = rafPending + 1
  /\ hist' = [hist EXCEPT !.owed = FALSE, !.discardedMoving = Moving(grid)]
  /\ op' = "init"
  /\ UNCHANGED <<pointer, config, time, lastTime, resizeTimeout, timers, inner, now, frames>>
  /\ OnlyEngine

\* window.waveGrid.init(canvasElement)
EngineInit == InitUpTo(MaxInits)

\* window.waveGrid.destroy()
Destroy ==
  /\ resizeListener' = FALSE
  /\ canvas' = FALSE
  /\ ctx' = FALSE
  /\ op' = "destroy"
  /\ UNCHANGED <<canvasDim, grid, pointer, config, time, lastTime, resizeTimeout, timers,
                 rafPending, ptrListeners, inner, now, frames, gen, hist>>
  /\ OnlyEngine

\* the window takes the size dims and fires 'resize'
WindowResize(dims) ==
  /\ inner' = dims
  /\ IF resizeListener
     THEN /\ resizeTimeout' = handleResize(resizeTimeout, timers, ResizeDelay)[1]
          /\ timers' = handleResize(resizeTimeout, timers, ResizeDelay)[2]
          /\ hist' = IF canvas /\ ctx
                     THEN [hist EXCEPT !.lastNotify = now, !.owed = TRUE, !.rebuilds = 0,
                                       !.burst = IF timers = {} THEN 1
                                                 ELSE IF @ < 2 THEN @ + 1 ELSE @]
                     ELSE hist
     ELSE UNCHANGED <<resizeTimeout, timers, hist>>
  /\ op' = "event"
  /\ UNCHANGED <<canvas, ctx, canvasDim, grid, pointer, config, time, lastTime,
                 rafPending, ptrListeners, resizeListener, now, frames, gen>>
  /\ OnlyEngine

\* a pending timer is due: () => resize(canvas, ctx); with canvas null the
\* assignment canvasElement.width = ... throws and nothing is rebuilt
TimerFire(t) ==
  /\ t \in timers
  /\ now >= t.due
  /\ timers' = timers \ {t}
  /\ IF canvas /\ ctx
     THEN /\ canvasDim' = ResizedCanvas(inner)
          /\ gen' = 1 - gen
          /\ grid' = ResizedGrid(inner, 1 - gen)
          /\ hist' = [hist EXCEPT !.owed = FALSE, !.discardedMoving = Moving(grid),
                                  !.rebuilds = IF @ < 2 THEN @ + 1 ELSE @]
          /\ op' = "timer"
     ELSE /\ UNCHANGED <<canvasDim, gen, grid, hist>>
          /\ op' = "timerThrows"
  /\ UNCHANGED <<canvas, ctx, pointer, config, time, lastTime, resizeTimeout,
                 rafPending, ptrListeners, resizeListener, inner, now, frames>>
  /\ OnlyEngine

\* time passes
Tick ==
  /\ now + TickMs <= MaxNow
  /\ now' = now + TickMs
  /\ op' = "event"
  /\ UNCHANGED <<canvas, ctx, canvasDim, grid, pointer, config, time, lastTime,
                 resizeTimeout, timers, rafPending, ptrListeners, resizeListener,
                 inner, frames, gen, hist>>
  /\ OnlyEngine

\* animate(currentTime): one requested frame callback runs with the host's
\* timestamp, the noise values nz and the audio energy that the frame reads
Animate(currentTime, nz, energy, maxFrames) ==
  /\ rafPending > 0
  /\ frames < maxFrames
  /\ \E deltaTime \in {FSub(currentTime, IF lastTime = 0 THEN currentTime ELSE lastTime)} :
     \E upd \in {update(deltaTime, nz, energy)} :
        /\ lastTime' = currentTime
        /\ hist' = [hist EXCEPT !.elapsed = deltaTime]
        /\ time' = upd[1]
        /\ grid' = [grid EXCEPT !.points = upd[2]]
        /\ IF DrawCompletes(ctx, [grid EXCEPT !.points = upd[2]])
           THEN /\ rafPending' = rafPending
                /\ op' = "frame"
           ELSE /\ rafPending' = rafPending - 1
                /\ op' = "frameThrows"
  /\ frames' = frames + 1
  /\ UNCHANGED <<canvas, ctx, canvasDim, pointer, config, resizeTimeout, timers,
                 ptrListeners, resizeListener, inner, now, gen>>
  /\ OnlyEngine

\* a pointermove event on the canvas
PointerMove(pos) ==
  /\ ptrListeners > 0
  /\ pointer' = Dispatch(pointer, pos[1], pos[2], ptrListeners)
  /\ hist' = [hist EXCEPT !.left = FALSE]
  /\ op' = "event"
  /\ UNCHANGED <<canvas, ctx, canvasDim, grid, config, time, lastTime, resizeTimeout,
                 timers, rafPending, ptrListeners, resizeListener, inner, now, frames,
                 gen>>
  /\ OnlyEngine

\* a pointerleave event on the canvas
PointerLeave ==
  /\ ptrListeners > 0
  /\ pointer' = [pointer EXCEPT !.isActive = FALSE]
  /\ hist' = [hist EXCEPT !.left = TRUE]
  /\ op' = "event"
  /\ UNCHANGED <<canvas, ctx, canvasDim, grid, config, time, lastTime, resizeTimeout,
                 timers, rafPending, ptrListeners, resizeListener, inner, now, frames,
                 gen>>
  /\ OnlyEngine

\* a pointerenter event on the canvas
PointerEnter ==
  /\ ptrListeners > 0
  /\ pointer' = [pointer EXCEPT !.isActive = TRUE]
  /\ hist' = [hist EXCEPT !.left = FALSE]
  /\ op' = "event"
  /\ UNCHANGED <<canvas, ctx, canvasDim, grid, config, time, lastTime, resizeTimeout,
                 timers, rafPending, ptrListeners, resizeListener, inner, now, frames,
                 gen>>
  /\ OnlyEngine

\* ------------------------------------------------------------------------
\* Specification of the engine's life cycle
\* ------------------------------------------------------------------------
\* let currentTheme = 'default'
ThemeInit == currentTheme = "default"

\* app.js has not run: no noise object, no stream
NoiseNotLoaded == simplex = NoSimplex /\ noiseLog = {}
StreamIdle == stream = NoStream

LoopInit ==
  /\ isAnimating = FALSE
  /\ animationFrameId = 0
  /\ wgPending = {}
  /\ wgTime = 0

\* the engine as loaded, before init(), in a window of one of the viewports
EngineLoadedIn(viewports) ==
  /\ canvas = FALSE
  /\ ctx = FALSE
  /\ canvasDim = <<0, 0>>
  /\ grid = [rows |-> 0, cols |-> 0, points |-> <<>>]
  /\ pointer = [x |-> 0, y |-> 0, velocityX |-> 0, velocityY |-> 0, isActive |-> FALSE]
  /\ cursor = NoCursor
  /\ player = NoPlayer
  /\ config = DefaultConfig
  /\ time = 0
  /\ lastTime = 0
  /\ resizeTimeout = 0
  /\ timers = {}
  /\ rafPending = 0
  /\ ptrListeners = 0
  /\ resizeListener = FALSE
  /\ inner \in viewports
  /\ now = 0
  /\ frames = 0
  /\ gen = 0
  /\ hist = NoHistory
  /\ op = "load"
  /\ LoopInit
  /\ ThemeInit

\* the module as loaded, before init() and before app.js has run
LoadedIn(viewports) == EngineLoadedIn(viewports) /\ NoiseNotLoaded /\ StreamIdle

\* the module as loaded, before init()
Init == LoadedIn(Viewports)

Next ==
  \/ EngineInit
  \/ Destroy
  \/ \E dims \in Viewports : WindowResize(dims)
  \/ \E t \in timers : TimerFire(t)
  \/ Tick
  \/ \E ts \in SteadyFrameTimes : \E nz \in CalmField(Len(grid.points)) :
        \E e \in Energies : Animate(ts, nz, e, MaxFrames)
  \/ \E pos \in BesidePositions : PointerMove(pos)
  \/ PointerEnter

Spec == Init /\ [][Next]_vars

\* ------------------------------------------------------------------------
\* Specification of the physics: an initialised engine, pointer events, frames
\* ------------------------------------------------------------------------
\* animate callbacks explored by the physics specification
MaxPhysFrames == 3

\* the state that init() leaves for the viewport dims, with g as its grid
InitialisedWith(dims, g) ==
  /\ canvas = TRUE
  /\ ctx = TRUE
  /\ canvasDim = ResizedCanvas(dims)
  /\ grid = g
  /\ pointer = [x |-> 0, y |-> 0, velocityX |-> 0, velocityY |-> 0, isActive |-> FALSE]
  /\ cursor = NoCursor
  /\ player = NoPlayer
  /\ time = 0
  /\ lastTime = 0
  /\ resizeTimeout = 0
  /\ timers = {}
  /\ rafPending = 1
  /\ ptrListeners = 1
  /\ resizeListener = TRUE
  /\ inner = dims
  /\ now = 0
  /\ frames = 0
  /\ gen = 1
  /\ hist = NoHistory
  /\ op = "init"
  /\ LoopInit
  /\ ThemeInit
  /\ NoiseNotLoaded
  /\ StreamIdle

EmptyGrid == [rows |-> 0, cols |-> 0, points |-> <<>>]

PhysicsInit ==
  /\ \E dims \in Viewports :
        InitialisedWith(dims, initGrid(EmptyGrid, ResizedCanvas(dims), dims[1], dims[2], 1))
  /\ config = DefaultConfig

PhysicsNext ==
  \/ \E ts \in SteadyFrameTimes : \E nz \in NoiseFields(Len(grid.points)) :
        \E e \in Energies : Animate(ts, nz, e, MaxPhysFrames)
  \/ \E pos \in NearPositions \cup FarPositions : PointerMove(pos)
  \/ PointerLeave
  \/ PointerEnter

SpecPhysics == PhysicsInit /\ [][PhysicsNext]_vars

\* ------------------------------------------------------------------------
\* Specification of the spring alone: one point, pointer inactive, the point
\* released from a chosen offset under a chosen tension/friction pair
\* ------------------------------------------------------------------------
\* frames after which a settling spring is required to have settled
SettleFrames == 100
\* frames after which a growing oscillation is required to be at the clamp
GrowFrames == 25
\* animate callbacks explored by the spring specification
MaxSpringFrames == 110
\* "small epsilon": half a pixel
SettleEpsilon == One \div 2

\* <<tension, friction>>: the defaults, the pair 0.06/0.9, pairs whose
\* product is above 0.082, and pairs whose product is above 2 * (1 + friction)
SpringPairs == {<<3, 82>>, <<6, 90>>, <<10, 90>>, <<400, 90>>, <<500, 90>>, <<700, 50>>}

\* starting offsets <<cx, cy>> across the clamp range, none zero
SpringStarts == {<<One * k, -37 * k>> : k \in (-20..20) \ {0}}

SpringInit ==
  /\ \E st \in SpringStarts :
       InitialisedWith(<<0, 0>>,
         [rows |-> 1, cols |-> 1,
          points |-> <<[NewPoint(0, 0, 1) EXCEPT !.cx = st[1], !.cy = st[2]]>>])
  /\ \E pr \in SpringPairs :
       config = [DefaultConfig EXCEPT !.tension = pr[1], !.friction = pr[2]]

SpringNext ==
  \E ts \in SteadyFrameTimes : \E nz \in CalmField(Len(grid.points)) :
     \E e \in Energies : Animate(ts, nz, e, MaxSpringFrames)

SpecSpring == SpringInit /\ [][SpringNext]_vars

\* ------------------------------------------------------------------------
\* WaveGrid loop of app.js: animate, start, stop
\* ------------------------------------------------------------------------
\* updateParticles calls explored (this.time / 0.01)
MaxLoopFrames == 30

NoEngine == UNCHANGED engineVars

\* an operation of the WaveGrid loop that leaves everything else alone
OnlyLoop == NoEngine /\ UNCHANGED <<themeVars, noiseVars, streamVars, cueVars, playerVars>>

\* the id requestAnimationFrame returns: not pending, and not the one in hand
FreshFrameId(pending, inHand) ==
  CHOOSE id \in 1..(Cardinality(pending) + 2) :
    /\ id # inHand
    /\ id \notin pending
    /\ \A j \in 1..(id - 1) : j = inHand \/ j \in pending

LoopState ==
  [isAnimating |-> isAnimating, animationFrameId |-> animationFrameId,
   pending |-> wgPending, time |-> wgTime]

\* WaveGrid.animate(): updateParticles advances this.time, drawGrid paints,
\* and the next frame is requested
WgAnimate(st) ==
  IF ~st.isAnimating THEN st
  ELSE LET id == FreshFrameId(st.pending, st.animationFrameId)
       IN [st EXCEPT !.time = @ + 1, !.animationFrameId = id, !.pending = @ \cup {id}]

\* WaveGrid.start()
WgStartOp(st) ==
  IF st.isAnimating THEN st ELSE WgAnimate([st EXCEPT !.isAnimating = TRUE])

\* mutant: stop() clears the flag and leaves the requested frame pending
WgStopNoCancel(st) == [st EXCEPT !.isAnimating = FALSE, !.animationFrameId = 0]

\* WaveGrid.stop()
WgStopOp(st) ==
  IF st.animationFrameId # 0
  THEN [st EXCEPT !.isAnimating = FALSE, !.pending = @ \ {st.animationFrameId},
                  !.animationFrameId = 0]
  ELSE [st EXCEPT !.isAnimating = FALSE]

SetLoop(st) ==
  /\ isAnimating' = st.isAnimating
  /\ animationFrameId' = st.animationFrameId
  /\ wgPending' = st.pending
  /\ wgTime' = st.time

WgStart ==
  /\ wgTime < MaxLoopFrames
  /\ SetLoop(WgStartOp(LoopState))
  /\ op' = "start"
  /\ OnlyLoop

WgStop ==
  /\ SetLoop(WgStopOp(LoopState))
  /\ op' = "stop"
  /\ OnlyLoop

\* the host runs the requested callback id
WgFrame(id) ==
  /\ id \in wgPending
  /\ wgTime < MaxLoopFrames
  /\ SetLoop(WgAnimate([LoopState EXCEPT !.pending = @ \ {id}]))
  /\ op' = "loopFrame"
  /\ OnlyLoop

LoopNext ==
  \/ WgStart
  \/ WgStop
  \/ \E id \in wgPending : WgFrame(id)

SpecLoop == Init /\ [][LoopNext]_vars

\* ------------------------------------------------------------------------
\* Properties
\* ------------------------------------------------------------------------
\* -m <= c <= m as JavaScript compares: false for NaN
WithinClamp(c, m) == ~IsNaN(c) /\ c >= -m /\ c <= m

\* C1: after any sequence of frame updates and pointer events, whatever the
\* pointer velocities, every point's spring offset lies in
\* [-maxOffset, maxOffset] on both axes at the end of each update.
C1_OffsetWithinClamp ==
  \A i \in DOMAIN grid.points :
     /\ WithinClamp(grid.points[i].cx, maxCursorMoveY)
     /\ WithinClamp(grid.points[i].cy, maxCursorMoveY)

\* tension * friction of the documented stability constraint: 0.082
StabilityBound == 820

\* every point's spring offset is below epsilon on both axes
Settled ==
  \A i \in DOMAIN grid.points :
     /\ IsFinite(grid.points[i].cx) /\ Abs(grid.points[i].cx) < SettleEpsilon
     /\ IsFinite(grid.points[i].cy) /\ Abs(grid.points[i].cy) < SettleEpsilon

\* every point's spring offset is held at the clamp on both axes
AtClamp ==
  \A i \in DOMAIN grid.points :
     /\ Abs(grid.points[i].cx) = maxCursorMoveY
     /\ Abs(grid.points[i].cy) = maxCursorMoveY

\* the spring step x' = x + v', v' = (v - tension * x) * friction has an
\* eigenvalue below -1: tension * friction > 2 * (1 + friction)
Unstable(cfg) == cfg.tension * cfg.friction > 2 * One * (One + cfg.friction)

\* both eigenvalues of the spring step are inside the unit circle
Stable(cfg) == cfg.tension * cfg.friction < 2 * One * (One + cfg.friction)

\* C2: with the pointer inactive and a stable tension/friction pair (product
\* below the documented bound), from any offset inside the clamp range the
\* offset magnitude is below epsilon after SettleFrames frames and in every
\* later frame.
C2_StableSpringSettles ==
  (config.tension * config.friction < StabilityBound /\ frames >= SettleFrames) => Settled

C2_Witness ==
  /\ op = "frame"
  /\ frames = MaxSpringFrames
  /\ config.tension = 6 /\ config.friction = 90
  /\ Settled

C4_GridIsRowsTimesCols ==
  /\ DOMAIN grid.points = 1..(grid.rows * grid.cols)
  /\ \A idx \in DrawReads(grid) : idx + 1 \in DOMAIN grid.points

C4_Witness ==
  /\ op = "frame"
  /\ hist.rebuilds = 1
  /\ grid.rows = 2 /\ grid.cols = 2
  /\ Len(grid.points) = 4

\* C5: between two grid rebuilds no step changes the baseX or baseY of any
\* point.
C5_BaseImmutable ==
  [][gen' = gen =>
       /\ DOMAIN grid'.points = DOMAIN grid.points
       /\ \A i \in DOMAIN grid.points :
            /\ grid'.points[i].baseX = grid.points[i].baseX
            /\ grid'.points[i].baseY = grid.points[i].baseY]_vars

C5_Witness ==
  /\ op = "frame"
  /\ frames = MaxFrames
  /\ \E i \in DOMAIN grid.points : grid.points[i].cx # 0
  /\ \A i \in DOMAIN grid.points :
       /\ grid.points[i].baseX = ((i - 1) % grid.cols) * xGap
       /\ grid.points[i].baseY = ((i - 1) \div grid.cols) * yGap

\* C6: after every grid build, the initial one and every rebuild, every
\* point's spring offset and spring velocity are zero and no point of the
\* previous grid is in the new grid.
C6_RebuildResets ==
  [][gen' # gen =>
       \A i \in DOMAIN grid'.points :
          /\ grid'.points[i].cx = 0 /\ grid'.points[i].cy = 0
          /\ grid'.points[i].cvx = 0 /\ grid'.points[i].cvy = 0
          /\ grid'.points[i].gen = gen']_vars

C6_Witness ==
  /\ op = "timer"
  /\ hist.discardedMoving
  /\ grid.points # <<>>
  /\ ~Moving(grid)

\* C7: in any update, a point whose distance from the pointer is greater
\* than or equal to the influence radius gets no cursor velocity added: its
\* new spring velocity is the spring step of its old one.
C7_NoInjectionBeyondRadius ==
  [][frames' # frames =>
       \A i \in DOMAIN grid.points :
          LET distance == Distance(grid.points[i], pointer)
          IN (~IsNaN(distance) /\ distance >= influenceRadius) =>
               /\ grid'.points[i].cvx
                    = SpringVelocity(grid.points[i].cvx, grid.points[i].cx, config)
               /\ grid'.points[i].cvy
                    = SpringVelocity(grid.points[i].cvy, grid.points[i].cy, config)]_vars

C7_Witness ==
  /\ op = "frame"
  /\ frames = 1
  /\ pointer.isActive
  /\ pointer.x = influenceRadius /\ pointer.y = 0
  /\ pointer.velocityX # 0
  /\ Len(grid.points) = 4
  /\ Distance(grid.points[1], pointer) = influenceRadius
  /\ grid.points[1].cvx = 0
  /\ grid.points[2].cvx # 0

\* C8: for the WaveGrid loop, start() while running does nothing, at most one
\* frame callback is pending at any time, and after stop() no frame callback
\* is pending and no update runs until the next start().
C8_LoopStartStop ==
  /\ [](Cardinality(wgPending) <= 1 /\ (~isAnimating => wgPending = {}))
  /\ [][/\ (op' = "start" /\ isAnimating) => UNCHANGED loopVars
        /\ (~isAnimating /\ op' # "start") => wgTime' = wgTime]_vars

C8_Witness ==
  /\ op = "stop"
  /\ wgTime > 1
  /\ ~isAnimating
  /\ wgPending = {}

\* C9: a burst of resize notifications, each less than the debounce delay
\* after the previous one, rebuilds the grid exactly once, not earlier than
\* the delay after the last notification, in the timer callback and never in
\* a frame.
C9_DebouncedRebuild ==
  /\ [](/\ hist.rebuilds <= 1
        /\ (op = "timer" => now >= hist.lastNotify + ResizeDelay)
        /\ (hist.owed /\ canvas /\ ctx) => timers # {})
  /\ [][op' \in {"frame", "frameThrows"} =>
          /\ gen' = gen
          /\ grid'.rows = grid.rows /\ grid'.cols = grid.cols
          /\ DOMAIN grid'.points = DOMAIN grid.points]_vars

C9_Witness ==
  /\ op = "timer"
  /\ hist.burst = 2
  /\ hist.rebuilds = 1
  /\ ~hist.owed
  /\ timers = {}
  /\ now > ResizeDelay

\* C10: after destroy() none of the listeners that init() registered remains
\* registered.
C10_DestroyRemovesListeners ==
  op = "destroy" => (ptrListeners = 0 /\ ~resizeListener)

\* ------------------------------------------------------------------------
\* Specification of the frame clock: init(), destroy() and frames whose
\* timestamps the host chooses
\* ------------------------------------------------------------------------
\* init() calls explored by the clock specification
MaxClockInits == 2
\* animate callbacks explored by the clock specification
MaxClockFrames == 3
\* the gap between two frames of a host that was suspended: 30 s
SuspendGap == 30000 * One

\* timestamps the host may pass to the next frame: one display refresh after
\* the previous frame, or a suspension after it
HostFrameTimes == {FAdd(lastTime, 16 * One), FAdd(lastTime, SuspendGap)}

ClockNext ==
  \/ InitUpTo(MaxClockInits)
  \/ Destroy
  \/ \E ts \in HostFrameTimes : \E nz \in CalmField(Len(grid.points)) :
        \E e \in Energies : Animate(ts, nz, e, MaxClockFrames)

SpecClock == Init /\ [][ClockNext]_vars

IsFrame(o) == o \in {"frame", "frameThrows"}

\* C11: after each init(), the first frame callback that runs passes an
\* elapsed time of 0 to update, whatever timestamp the host supplies.
C11_FirstFrameElapsedZero ==
  [][(op = "init" /\ IsFrame(op')) => hist'.elapsed = 0]_vars

\* the "sane maximum" of the elapsed time, taken as one second
MaxElapsed == 1000 * One

\* C12: the elapsed time that a frame passes to update never exceeds a fixed
\* maximum, however large the gap between two consecutive host timestamps.
C12_ElapsedBounded ==
  IsFrame(op) => (~IsNaN(hist.elapsed) /\ hist.elapsed <= MaxElapsed)

\* ------------------------------------------------------------------------
\* Specification of the theme: init(), destroy(), frames and setTheme calls
\* ------------------------------------------------------------------------
\* the names passed to setTheme: the defined ones, names no object has, and
\* names that Object.prototype defines
ThemeNames == DefinedThemes \cup {"jazz", ""} \cup ObjectPrototypeKeys

\* window.waveGrid.setTheme(name)
SetTheme(name) ==
  /\ currentTheme' = setTheme(name)
  /\ op' = "setTheme"
  /\ UNCHANGED <<engineVars, loopVars, noiseVars, streamVars, cueVars, playerVars>>

ThemeNext ==
  \/ \E name \in ThemeNames : SetTheme(name)
  \/ EngineInit
  \/ Destroy
  \/ \E ts \in SteadyFrameTimes : \E nz \in CalmField(Len(grid.points)) :
        \E e \in Energies : Animate(ts, nz, e, MaxFrames)

SpecTheme == Init /\ [][ThemeNext]_vars

\* C13: for every name that is not a defined theme name setTheme makes the
\* default theme current, so the current theme is always a defined one and
\* the theme that draw reads always has a background and a line colour.
C13_ThemeAlwaysDefined ==
  /\ currentTheme \in DefinedThemes
  /\ DrawTheme.background /\ DrawTheme.lineColor

\* ------------------------------------------------------------------------
\* Specification of non-finite pointer input: an initialised engine, pointer
\* events whose coordinates may be NaN or +/-Infinity, frames
\* ------------------------------------------------------------------------
\* pointer positions <<clientX, clientY>> that are not finite
NonFinitePositions == {<<NaN, NaN>>, <<PInf, PInf>>, <<NInf, 0>>}

NonFiniteNext ==
  \/ \E ts \in SteadyFrameTimes : \E nz \in CalmField(Len(grid.points)) :
        \E e \in Energies : Animate(ts, nz, e, MaxPhysFrames)
  \/ \E pos \in NearPositions \cup NonFinitePositions : PointerMove(pos)
  \/ PointerLeave
  \/ PointerEnter

SpecNonFinite == PhysicsInit /\ [][NonFiniteNext]_vars

\* C14: after any sequence of pointer events, including events whose
\* coordinates are NaN or +/-Infinity, and frames, every point's spring
\* offset and spring velocity are finite.
C14_SpringStateFinite ==
  \A i \in DOMAIN grid.points :
     /\ IsFinite(grid.points[i].cx) /\ IsFinite(grid.points[i].cy)
     /\ IsFinite(grid.points[i].cvx) /\ IsFinite(grid.points[i].cvy)

\* ------------------------------------------------------------------------
\* Specification of the grid build for any viewport: init(), resize
\* notifications, timers and frames in a window whose width and height may
\* be zero, negative or missing
\* ------------------------------------------------------------------------
\* widths and heights: missing (undefined, which arithmetic turns into NaN
\* and which || treats as falsy like NaN), zero, negative, positive
AnySizes == {NaN, 0, -(2 * xGap), xGap}
AnyViewports == AnySizes \X AnySizes

BuildNext ==
  \/ EngineInit
  \/ \E dims \in AnyViewports : WindowResize(dims)
  \/ \E t \in timers : TimerFire(t)
  \/ Tick
  \/ \E ts \in SteadyFrameTimes : \E nz \in CalmField(Len(grid.points)) :
        \E e \in Energies : Animate(ts, nz, e, MaxFrames)

SpecBuild == LoadedIn(AnyViewports) /\ [][BuildNext]_vars

\* C15: for every viewport width and height, including zero, negative and
\* missing values, a grid build yields rows >= 1 and cols >= 1 with exactly
\* rows * cols points.
C15_BuildAtLeastOneByOne ==
  op \in {"init", "timer"} =>
     /\ grid.rows >= 1
     /\ grid.cols >= 1
     /\ DOMAIN grid.points = 1..(grid.rows * grid.cols)

\* ------------------------------------------------------------------------
\* Specification of the single-point scenario: one point at (0,0), tension
\* 0.03, friction 0.85, strength 1.0, pointer events along the x axis, frames
\* ------------------------------------------------------------------------
ScenarioConfig == [DefaultConfig EXCEPT !.tension = 3, !.friction = 85, !.cursorStrength = One]

\* pointer positions 5 px apart, so that successive events give the pointer
\* the velocity (5,0): on the point and beside it
ScenarioPositions == {<<-5 * One, 0>>, <<0, 0>>, <<5 * One, 0>>, <<10 * One, 0>>}

ScenarioInit ==
  /\ InitialisedWith(<<0, 0>>, initGrid(EmptyGrid, ResizedCanvas(<<0, 0>>), 0, 0, 1))
  /\ config = ScenarioConfig

ScenarioNext ==
  \/ \E ts \in SteadyFrameTimes : \E nz \in CalmField(Len(grid.points)) :
        \E e \in Energies : Animate(ts, nz, e, MaxPhysFrames)
  \/ \E pos \in ScenarioPositions : PointerMove(pos)
  \/ PointerLeave
  \/ PointerEnter

SpecScenario == ScenarioInit /\ [][ScenarioNext]_vars

\* the point is at rest: spring offset and spring velocity are zero
AtRest(p) == p.cx = 0 /\ p.cy = 0 /\ p.cvx = 0 /\ p.cvy = 0

\* the pointer is active with velocity (5,0)
PushedRight(ptr) == ptr.isActive /\ ptr.velocityX = 5 * One /\ ptr.velocityY = 0

\* C16 as stated: with a single point at rest at (0,0) and the pointer active
\* at (0,0) with velocity (5,0), one update leaves the point's spring
\* velocity x-component strictly positive and its spring offset x-component
\* nonzero.
C16_PushAtZeroDistanceMoves ==
  [][(AtRest(grid.points[1]) /\ PushedRight(pointer) /\ pointer.x = 0 /\ pointer.y = 0
      /\ IsFrame(op'))
     => (grid'.points[1].cvx > 0 /\ grid'.points[1].cx # 0)]_vars

\* C16: with a single point at rest at (0,0) and the pointer active with
\* velocity (5,0), one update leaves the point at rest when the pointer is at
\* (0,0), the zero distance being skipped; it leaves the spring velocity
\* x-component strictly positive and the spring offset x-component nonzero
\* when the pointer is on the x axis at a nonzero distance below the
\* influence radius.
C16_PushMovesOnlyOffThePoint ==
  [][(AtRest(grid.points[1]) /\ PushedRight(pointer) /\ pointer.y = 0 /\ IsFrame(op'))
     => /\ pointer.x = 0 => AtRest(grid'.points[1])
        /\ (pointer.x # 0 /\ Abs(pointer.x) < influenceRadius)
              => (grid'.points[1].cvx > 0 /\ grid'.points[1].cx # 0)]_vars

\* witness: the first frame has run with the pointer pushed right on the point
C16_Witness ==
  /\ frames = 1
  /\ IsFrame(op)
  /\ PushedRight(pointer) /\ pointer.x = 0 /\ pointer.y = 0
  /\ AtRest(grid.points[1])

\* the same push beside the point has moved it
C16_WitnessBeside ==
  /\ frames = 1
  /\ IsFrame(op)
  /\ PushedRight(pointer) /\ pointer.x = 5 * One /\ pointer.y = 0
  /\ grid.points[1].cvx > 0

\* ------------------------------------------------------------------------
\* Specification of the still field: simplex.noise2D returns 0 everywhere,
\* under each configured pair of wave amplitudes, with pointer events and
\* frames that read a quiet or a loud audio energy
\* ------------------------------------------------------------------------
\* <<waveAmpX, waveAmpY>> as configured: 0 and 12 here, 32 and 16 in the
\* cue++ configuration
ConfiguredAmplitudes == {<<waveAmpX, waveAmpY>>, <<32 * One, 16 * One>>}

QuietAndLoud == {0, One}

StillInit ==
  /\ \E dims \in Viewports :
        InitialisedWith(dims, initGrid(EmptyGrid, ResizedCanvas(dims), dims[1], dims[2], 1))
  /\ \E amp \in ConfiguredAmplitudes :
        config = [DefaultConfig EXCEPT !.waveAmpX = amp[1], !.waveAmpY = amp[2]]

StillNext ==
  \/ \E ts \in SteadyFrameTimes : \E nz \in CalmField(Len(grid.points)) :
        \E e \in QuietAndLoud : Animate(ts, nz, e, MaxPhysFrames)
  \/ \E pos \in NearPositions : PointerMove(pos)
  \/ PointerLeave
  \/ PointerEnter

SpecStill == StillInit /\ [][StillNext]_vars

\* the pointer is inactive and every point is at rest
Undisturbed == ~pointer.isActive /\ \A i \in DOMAIN grid.points : AtRest(grid.points[i])

\* C17 as stated: with the noise function returning 0 everywhere, the pointer
\* inactive and all spring state zero, one update leaves every point's
\* current position equal to its base position on both axes, for every
\* configured wave amplitude.
C17_StillFieldKeepsBase ==
  [][(Undisturbed /\ IsFrame(op'))
     => \A i \in DOMAIN grid'.points :
           /\ grid'.points[i].currentX = grid'.points[i].baseX
           /\ grid'.points[i].currentY = grid'.points[i].baseY]_vars

\* C17: with the noise function returning 0 everywhere, the pointer inactive
\* and all spring state zero, one update leaves every point's current
\* position equal to its base position on the y axis, and on the x axis
\* displaced from it by exactly the horizontal wave amplitude: equal to it
\* when that amplitude is 0.
C17_StillFieldShiftsByAmpX ==
  [][(Undisturbed /\ IsFrame(op'))
     => \A i \in DOMAIN grid'.points :
           /\ grid'.points[i].currentX = grid'.points[i].baseX + config.waveAmpX
           /\ grid'.points[i].currentY = grid'.points[i].baseY
           /\ config.waveAmpX = 0 => grid'.points[i].currentX = grid'.points[i].baseX]_vars

\* witness: a frame has run on an undisturbed 2 x 2 grid whose horizontal
\* amplitude is not 0
C17_Witness ==
  /\ IsFrame(op)
  /\ Undisturbed
  /\ Len(grid.points) = 4
  /\ config.waveAmpX # 0
  /\ grid.points[4].currentX = grid.points[4].baseX + config.waveAmpX

\* ------------------------------------------------------------------------
\* Specification of the grid of the cue++ engine (wave-grid.js): init(),
\* resize notifications, debounce timers, for windows of 800x600 and 400x300
\* ------------------------------------------------------------------------
\* config.xGap, config.yGap of the cue++ engine, and the buffer its build
\* adds to the width and to the height before dividing
cueXGap == 40 * One
cueYGap == 40 * One
cueBufferX == 200 * One
cueBufferY == 30 * One

cueNewPoint(row, col, offsetX, offsetY, g) ==
  [baseX |-> offsetX + col * cueXGap, baseY |-> offsetY + row * cueYGap,
   currentX |-> 0, currentY |-> 0, waveX |-> 0, waveY |-> 0,
   cx |-> 0, cy |-> 0, cvx |-> 0, cvy |-> 0, gen |-> g]

\* the points pushed by the two nested loops, row-major
cueFreshPoints(rows, cols, offsetX, offsetY, g) ==
  [k \in 1..(IF rows > 0 /\ cols > 0 THEN rows * cols ELSE 0) |->
     cueNewPoint((k - 1) \div cols, (k - 1) % cols, offsetX, offsetY, g)]

\* the centred grid of the counts rows and cols
cueCentred(width, height, rows, cols, g) ==
  [rows |-> rows, cols |-> cols,
   points |-> cueFreshPoints(rows, cols, (width - cueXGap * cols) \div 2,
                             (height - cueYGap * rows) \div 2, g)]

\* mutant: the buffer is not added before dividing
cueInitGridNoBuffer(cdim, logicalWidth, logicalHeight, g) ==
  cueCentred(OrElse(logicalWidth, cdim[1]), OrElse(logicalHeight, cdim[2]),
             CeilDiv(OrElse(logicalHeight, cdim[2]), cueYGap),
             CeilDiv(OrElse(logicalWidth, cdim[1]), cueXGap), g)

\* initGrid(canvasElement, logicalWidth, logicalHeight) of the cue++ engine
cueInitGrid(cdim, logicalWidth, logicalHeight, g) ==
  cueCentred(OrElse(logicalWidth, cdim[1]), OrElse(logicalHeight, cdim[2]),
             CeilDiv(OrElse(logicalHeight, cdim[2]) + cueBufferY, cueYGap),
             CeilDiv(OrElse(logicalWidth, cdim[1]) + cueBufferX, cueXGap), g)

\* resize(canvas, ctx) of the cue++ engine
cueResizedGrid(dims, g) == cueInitGrid(ResizedCanvas(dims), dims[1], dims[2], g)

CueViewports == {<<800 * One, 600 * One>>, <<400 * One, 300 * One>>}

\* window.waveGrid.init(canvasElement) of the cue++ engine
CueInit ==
  /\ ptrListeners < MaxInits
  /\ canvas' = TRUE
  /\ ctx' = TRUE
  /\ canvasDim' = ResizedCanvas(inner)
  /\ gen' = 1 - gen
  /\ grid' = cueResizedGrid(inner, 1 - gen)
  /\ ptrListeners' = ptrListeners + 1
  /\ resizeListener' = TRUE
  /\ rafPending' = rafPending + 1
  /\ hist' = [hist EXCEPT !.owed = FALSE, !.discardedMoving = Moving(grid)]
  /\ op' = "init"
  /\ UNCHANGED <<pointer, config, time, lastTime, resizeTimeout, timers, inner, now, frames>>
  /\ OnlyEngine

\* a pending timer of the cue++ engine is due: () => resize(canvas, ctx)
CueTimerFire(t) ==
  /\ t \in timers
  /\ now >= t.due
  /\ timers' = timers \ {t}
  /\ IF canvas /\ ctx
     THEN /\ canvasDim' = ResizedCanvas(inner)
          /\ gen' = 1 - gen
          /\ grid' = cueResizedGrid(inner, 1 - gen)
          /\ hist' = [hist EXCEPT !.owed = FALSE, !.discardedMoving = Moving(grid),
                                  !.rebuilds = IF @ < 2 THEN @ + 1 ELSE @]
          /\ op' = "timer"
     ELSE /\ UNCHANGED <<canvasDim, gen, grid, hist>>
          /\ op' = "timerThrows"
  /\ UNCHANGED <<canvas, ctx, pointer, config, time, lastTime, resizeTimeout,
                 rafPending, ptrListeners, resizeListener, inner, now, frames>>
  /\ OnlyEngine

CueNext ==
  \/ CueInit
  \/ Destroy
  \/ \E dims \in CueViewports : WindowResize(dims)
  \/ \E t \in timers : CueTimerFire(t)
  \/ Tick

SpecCue == LoadedIn(CueViewports) /\ [][CueNext]_vars

\* a rebuild for 400x300 of a grid that was built for 800x600
ShrinkToHalf ==
  /\ canvasDim = <<800 * One, 600 * One>>
  /\ inner = <<400 * One, 300 * One>>
  /\ op' = "timer"

\* C18 as stated: rebuilding a grid that was built for 800x600 with spacing
\* 40 for 400x300 with the same spacing yields exactly half as many rows and
\* exactly half as many columns as before.
C18_RebuildHalvesCounts ==
  [][ShrinkToHalf => (2 * grid'.rows = grid.rows /\ 2 * grid'.cols = grid.cols)]_vars

\* C18: rebuilding a grid that was built for 800x600 with spacing 40 for
\* 400x300 with the same spacing yields 15 columns where there were 25 and 9
\* rows where there were 16: fewer rows and fewer columns than before, but
\* more than half as many, and 15 * 9 fresh points.
C18_RebuildShrinksCounts ==
  [][ShrinkToHalf =>
       /\ grid.cols = 25 /\ grid.rows = 16
       /\ grid'.cols = 15 /\ grid'.rows = 9
       /\ grid'.cols < grid.cols /\ 2 * grid'.cols > grid.cols
       /\ grid'.rows < grid.rows /\ 2 * grid'.rows > grid.rows
       /\ DOMAIN grid'.points = 1..(15 * 9)
       /\ \A i \in DOMAIN grid'.points : grid'.points[i].gen = gen']_vars

\* witness: the timer has rebuilt the 800x600 grid for 400x300
C18_Witness ==
  /\ op = "timer"
  /\ canvasDim = <<400 * One, 300 * One>>
  /\ hist.rebuilds = 1
  /\ grid.cols = 15 /\ grid.rows = 9
  /\ grid.points[1].baseX = -100 * One

\* ------------------------------------------------------------------------
\* Specification of the noise object: app.js has constructed simplex from
\* some random numbers, and noise is called at some coordinates
\* ------------------------------------------------------------------------
\* what Math.floor(Math.random() * 256) may give for the 256 entries of p:
\* a permutation, a table with repeats, one constant
RandomSources ==
  {[i \in 0..(PermSize - 1) |-> (7 * i + 13) % PermSize],
   [i \in 0..(PermSize - 1) |-> (i * i + 3 * i) % PermSize],
   [i \in 0..(PermSize - 1) |-> PermSize - 1]}

\* coordinates <<xin, yin, zin>>
NoiseCoords ==
  {<<0, 0, 0>>, <<50, 25, 0>>, <<133, 20, 101>>, <<-70, 310, 5>>, <<25500, -40, 99>>,
   <<12, 12, 12>>}

\* app.js has run: const simplex = new SimplexNoise(), no stream yet
AppLoaded(sources) ==
  /\ EngineLoadedIn({<<0, 0>>})
  /\ simplex \in {SimplexNoise(random) : random \in sources}
  /\ noiseLog = {}
  /\ StreamIdle

\* simplex.noise(xin, yin, zin)
NoiseCall(at) ==
  /\ \E r \in {noise(simplex, at[1], at[2], at[3])} :
        /\ simplex' = r.self
        /\ noiseLog' = noiseLog \cup {[at |-> at, value |-> r.value]}
  /\ op' = "noise"
  /\ UNCHANGED <<engineVars, loopVars, themeVars, streamVars, cueVars, playerVars>>

NoiseNext == \E at \in NoiseCoords : NoiseCall(at)

SpecNoise == AppLoaded(RandomSources) /\ [][NoiseNext]_vars

\* C19: the noise tables perm and gradP are written only while the noise
\* object is constructed: no noise call changes them, and two calls on the
\* same instance with the same coordinates return the same value, whatever
\* calls happen in between.
C19_NoiseTablesNeverWritten ==
  [][op' = "noise" =>
       /\ simplex' = simplex
       /\ \A a, b \in noiseLog' : a.at = b.at => a.value = b.value]_vars

\* witness: every coordinate has been sampled, and not every sample is 0
C19_Witness ==
  /\ op = "noise"
  /\ Cardinality(noiseLog) = Cardinality(NoiseCoords)
  /\ \E a \in noiseLog : a.value # 0
  /\ Len(simplex.perm) = TableSize

\* ------------------------------------------------------------------------
\* Specification of one playStream call: the call, its continuation after
\* the await, media events of the two elements, rejections of play()
\* ------------------------------------------------------------------------
\* media events and rejections handled
MaxStreamEvents == 4

WebAudioOutcomes == {"failed", "contextOnly", "connected"}

\* playStream(url, urlAlt) is called
PlayStreamCall(urlAlt, webAudio, suspended) ==
  /\ stream.pc = "idle"
  /\ stream' = playStream(stream, urlAlt, webAudio, suspended)
  /\ op' = "playStream"
  /\ UNCHANGED <<engineVars, loopVars, themeVars, noiseVars, cueVars, playerVars>>

\* audioContext.resume() settles and playStream runs to its end
PlayStreamResume ==
  /\ stream.pc = "resuming"
  /\ stream' = playStreamResumed(stream)
  /\ op' = "resumed"
  /\ UNCHANGED <<engineVars, loopVars, themeVars, noiseVars, cueVars, playerVars>>

\* one more event is handled, leaving the stream as st
Handled(st, name) ==
  /\ stream.events < MaxStreamEvents
  /\ stream' = [st EXCEPT !.events = @ + 1]
  /\ op' = name
  /\ UNCHANGED <<engineVars, loopVars, themeVars, noiseVars, cueVars, playerVars>>

\* the first element fires 'error'
PrimaryError(webAudio) ==
  /\ "primary" \in Elements(stream)
  /\ Handled(onError(stream, webAudio), "primaryError")

\* the alternate element fires 'error'
AltError ==
  /\ "alt" \in Elements(stream)
  /\ Handled(ShowError(stream), "altError")

\* an element fires 'playing' or 'waiting'
MediaPlaying == Elements(stream) # {} /\ Handled(onPlaying(stream), "playing")
MediaWaiting == Elements(stream) # {} /\ Handled(onWaiting(stream), "waiting")

\* a pending play() promise rejects
PlayRejected(p) == p \in stream.played /\ Handled(onPlayRejected(stream, p), "playRejected")

StreamNext ==
  \/ \E urlAlt \in BOOLEAN : \E webAudio \in WebAudioOutcomes : \E suspended \in BOOLEAN :
        PlayStreamCall(urlAlt, webAudio, suspended)
  \/ PlayStreamResume
  \/ \E webAudio \in BOOLEAN : PrimaryError(webAudio)
  \/ AltError
  \/ MediaPlaying
  \/ MediaWaiting
  \/ \E p \in stream.played : PlayRejected(p)

SpecStream == AppLoaded(RandomSources) /\ [][StreamNext]_vars

\* C20: within one playStream call, whatever error events the audio elements
\* fire, the alternate URL is tried at most once, and an error of the
\* alternate stream ends in the error status without any further retry: no
\* new element, no new play().
C20_AlternateTriedOnce ==
  [][/\ stream'.altCreated <= 1
     /\ op' = "altError" =>
          /\ stream'.status = ConnectionError
          /\ ~stream'.playing
          /\ stream'.altCreated = stream.altCreated
          /\ stream'.audio = stream.audio
          /\ stream'.played = stream.played]_vars

\* witness: the alternate was tried, it failed, and the first element has
\* fired 'error' more than once
C20_Witness ==
  /\ op = "altError"
  /\ stream.altCreated = 1
  /\ stream.hasTriedAlt
  /\ stream.events = MaxStreamEvents
  /\ stream.status = ConnectionError

\* the spring step of update on the point p, giving q: tension, friction,
\* integration and clamp, and nothing added by the cursor
SpringStepOnly(p, q) ==
  /\ q.cvx = FMul(FAdd(p.cvx, FMul(FNeg(p.cx), config.tension)), config.friction)
  /\ q.cvy = FMul(FAdd(p.cvy, FMul(FNeg(p.cy), config.tension)), config.friction)
  /\ q.cx = MathMax(-maxCursorMoveY, MathMin(maxCursorMoveY, FAdd(p.cx, q.cvx)))
  /\ q.cy = MathMax(-maxCursorMoveY, MathMin(maxCursorMoveY, FAdd(p.cy, q.cvy)))

\* C21: from a pointerleave event until the next pointermove or pointerenter,
\* no update adds cursor velocity to any point, while the spring step
\* (tension, friction, integration, clamp) runs for every point in each of
\* those updates.
C21_NoInjectionAfterLeave ==
  [][(hist.left /\ frames' # frames) =>
       \A i \in DOMAIN grid.points : SpringStepOnly(grid.points[i], grid'.points[i])]_vars

\* witness: a frame has run after a pointerleave, the pointer left behind
\* within reach of a point that an earlier frame had set moving
C21_Witness ==
  /\ IsFrame(op)
  /\ hist.left
  /\ frames >= 2
  /\ pointer.velocityX # 0
  /\ \E i \in DOMAIN grid.points :
        /\ grid.points[i].cvx # 0
        /\ InRange(Distance(grid.points[i], pointer))

\* C22: while the pointer is active but has not moved since the previous
\* frame (no pointer event in between), a frame adds no cursor velocity to
\* any point: a stationary cursor has no effect.
C22_StationaryCursorNoEffect ==
  [][(IsFrame(op) /\ pointer.isActive /\ frames' # frames) =>
       \A i \in DOMAIN grid.points : SpringStepOnly(grid.points[i], grid'.points[i])]_vars

\* ------------------------------------------------------------------------
\* The cue++ engine (wave-grid.js): cursor tracking, update, pointer handlers
\* ------------------------------------------------------------------------
cueNoiseAmplitude == 12
cueWaveAmpX == 32 * One
cueWaveAmpY == 16 * One
cursorBaseRadius == 175 * One
maxCursorMove == 100 * One
maxVelocity == 100 * One
roundingPrecision == 10

MathHypot(dx, dy) == MathSqrt(FAdd(FMul(dx, dx), FMul(dy, dy)))

\* atan on [-1, 1]: z*pi/4 + 0.273*z*(1 - |z|)
AtanUnit(z) == RoundDiv(z * PiFix, 4 * One) + RoundDiv(273 * z * (One - Abs(z)), 1000 * One)

\* Math.atan2(dy, dx) in radians, by quadrant
MathAtan2(dy, dx) ==
  IF ~IsFinite(dy) \/ ~IsFinite(dx) THEN NaN
  ELSE IF dx = 0 /\ dy = 0 THEN 0
  ELSE IF Abs(dx) >= Abs(dy)
    THEN LET b == AtanUnit(RoundDiv(dy * One, Abs(dx)) * Sign(dx))
         IN IF dx > 0 THEN b ELSE IF dy >= 0 THEN b + PiFix ELSE b - PiFix
  ELSE LET b == AtanUnit(RoundDiv(dx * One, Abs(dy)) * Sign(dy))
       IN (IF dy > 0 THEN RoundDiv(PiFix, 2) ELSE -RoundDiv(PiFix, 2)) - b

\* the velocity, angle and smoothed position computed from the raw position
cueTracked(c) ==
  LET dx == FSub(c.x, c.lx)
      dy == FSub(c.y, c.ly)
      v == MathHypot(dx, dy)
  IN [c EXCEPT !.v = v,
               !.vs = MathMin(maxVelocity, FAdd(c.vs, FMulC(FSub(v, c.vs), 1, 10))),
               !.a = MathAtan2(dy, dx),
               !.sx = FAdd(c.sx, FMulC(FSub(c.x, c.sx), 1, 10)),
               !.sy = FAdd(c.sy, FMulC(FSub(c.y, c.sy), 1, 10)),
               !.lx = c.x,
               !.ly = c.y]

\* mutant: the cursor is tracked whether or not it is active
cueTrackCursorAlways(c) == cueTracked(c)

\* the cursor block of update: runs only if (cursor.isActive)
cueTrackCursor(c) == IF c.isActive THEN cueTracked(c) ELSE c

cueDistance(p, c) == MathHypot(FSub(p.baseX, c.sx), FSub(p.baseY, c.sy))

cueCursorRadius(c) == MathMax(cursorBaseRadius, c.vs)

\* Math.cos(0.001 * distance) * (1 - distance / cursorRadius)
cueDirectionFactor(distance, cursorRadius) ==
  FMul(MathCos(FMulC(distance, 1, 1000)), FSub(One, FDiv(distance, cursorRadius)))

\* trig(cursor.a) * directionFactor * cursorRadius * cursor.vs * cursorForceMultiplier
cueForce(trig, distance, cursorRadius, vs) ==
  FMulC(FMul(FMul(FMul(trig, cueDirectionFactor(distance, cursorRadius)), cursorRadius), vs),
        65, 100000)

cuePushed(p, c, distance, cursorRadius) ==
  [p EXCEPT !.cvx = FAdd(@, cueForce(MathCos(c.a), distance, cursorRadius, c.vs)),
            !.cvy = FAdd(@, cueForce(MathSin(c.a), distance, cursorRadius, c.vs))]

\* the cursor interaction of one point
cueInject(p, c) ==
  IF /\ c.isActive
     /\ FLt(cueDistance(p, c), cueCursorRadius(c))
     /\ FGt(cueDistance(p, c), 0)
  THEN cuePushed(p, c, cueDistance(p, c), cueCursorRadius(c))
  ELSE p

\* t = noiseAmplitude * noiseValue; waveX = cos(t) * waveAmpX; waveY = sin(t) * waveAmpY
cueWave(p, noiseAt) ==
  [p EXCEPT !.waveX = FMul(MathCos(FMulC(noiseAt, cueNoiseAmplitude, 1)), cueWaveAmpX),
            !.waveY = FMul(MathSin(FMulC(noiseAt, cueNoiseAmplitude, 1)), cueWaveAmpY)]

\* spring (tension 0.005) and friction (0.925)
cueSpring(p) ==
  [p EXCEPT !.cvx = FMulC(FAdd(p.cvx, FMulC(FNeg(p.cx), 5, 1000)), 925, 1000),
            !.cvy = FMulC(FAdd(p.cvy, FMulC(FNeg(p.cy), 5, 1000)), 925, 1000)]

cueClamp(v) == MathMin(maxCursorMove, MathMax(-maxCursorMove, v))

\* integration with integrationFactor 2, then the clamp
cueIntegrate(p) ==
  [p EXCEPT !.cx = cueClamp(FAdd(p.cx, FMulC(p.cvx, 2, 1))),
            !.cy = cueClamp(FAdd(p.cy, FMulC(p.cvy, 2, 1)))]

\* Math.round(roundingPrecision * v) / roundingPrecision: to the nearest
\* tenth, a half going up
cueRound(v) ==
  IF ~IsFinite(v) THEN v
  ELSE ((v + (One \div (2 * roundingPrecision))) \div (One \div roundingPrecision))
         * (One \div roundingPrecision)

\* mutant: the final position is not rounded
cueFinalUnrounded(p) ==
  [p EXCEPT !.currentX = FAdd(FAdd(p.baseX, p.waveX), p.cx),
            !.currentY = FAdd(FAdd(p.baseY, p.waveY), p.cy)]

\* final position with rounding
cueFinal(p) ==
  [p EXCEPT !.currentX = cueRound(FAdd(FAdd(p.baseX, p.waveX), p.cx)),
            !.currentY = cueRound(FAdd(FAdd(p.baseY, p.waveY), p.cy))]

cueUpdatePoint(p, c, noiseAt) ==
  cueFinal(cueIntegrate(cueSpring(cueInject(cueWave(p, noiseAt), c))))

\* update(deltaTime) of wave-grid.js on the cursor c and the points, nz[i]
\* being the noise value of point i
cueUpdate(c, points, nz) ==
  [cursor |-> cueTrackCursor(c),
   points |-> [i \in DOMAIN points |-> cueUpdatePoint(points[i], cueTrackCursor(c), nz[i])]]

\* animate(currentTime) of wave-grid.js
CueAnimate(currentTime, nz, maxFrames) ==
  /\ rafPending > 0
  /\ frames < maxFrames
  /\ \E upd \in {cueUpdate(cursor, grid.points, nz)} :
        /\ cursor' = upd.cursor
        /\ grid' = [grid EXCEPT !.points = upd.points]
        /\ IF DrawCompletes(ctx, [grid EXCEPT !.points = upd.points])
           THEN /\ rafPending' = rafPending
                /\ op' = "frame"
           ELSE /\ rafPending' = rafPending - 1
                /\ op' = "frameThrows"
  /\ lastTime' = currentTime
  /\ hist' = [hist EXCEPT !.elapsed = FSub(currentTime, IF lastTime = 0 THEN currentTime ELSE lastTime)]
  /\ frames' = frames + 1
  /\ UNCHANGED <<canvas, ctx, canvasDim, pointer, config, time, resizeTimeout, timers,
                 ptrListeners, resizeListener, inner, now, gen>>
  /\ NoLoop
  /\ UNCHANGED <<themeVars, noiseVars, streamVars, playerVars>>

\* what no pointer event of the cue++ engine touches
CueEventFrame ==
  /\ op' = "event"
  /\ UNCHANGED <<engineVars, themeVars, noiseVars, streamVars, playerVars>>
  /\ NoLoop

\* a pointermove or a pointerenter event: both handlers store the position
\* and set isActive
CuePointerAt(pos) ==
  /\ ptrListeners > 0
  /\ cursor' = [cursor EXCEPT !.x = FSub(pos[1], RectLeft), !.y = FSub(pos[2], RectTop),
                               !.isActive = TRUE]
  /\ CueEventFrame

CuePointerLeave ==
  /\ ptrListeners > 0
  /\ cursor' = [cursor EXCEPT !.isActive = FALSE]
  /\ CueEventFrame

\* pointer positions around the five points of the small grid
CuePositions == {<<0, 0>>, <<30 * One, 0>>, <<-50 * One, -20 * One>>, <<37 * One, 11 * One>>}

CueFrameInit ==
  /\ InitialisedWith(<<0, 0>>, cueResizedGrid(<<0, 0>>, 1))
  /\ config = DefaultConfig

CueFrameNext ==
  \/ \E ts \in SteadyFrameTimes : \E nz \in NoiseFields(Len(grid.points)) :
        CueAnimate(ts, nz, MaxPhysFrames)
  \/ \E pos \in CuePositions : CuePointerAt(pos)
  \/ CuePointerLeave

SpecCueFrame == CueFrameInit /\ [][CueFrameNext]_vars

\* C23 as stated: the per-frame update never writes any field of the pointer
\* state; only the pointer handlers change it.
C23_UpdateWritesNoCursorField ==
  [][IsFrame(op') => cursor' = cursor]_vars

\* C23, amended: the per-frame update never writes the raw position x, y or
\* the flag isActive, which only the pointer handlers change; while the
\* cursor is inactive it writes no field at all, and while it is active it
\* recomputes only the derived fields v, vs, a, sx, sy, lx, ly.
C23_UpdateKeepsRawCursor ==
  [][IsFrame(op') =>
       /\ cursor'.x = cursor.x
       /\ cursor'.y = cursor.y
       /\ cursor'.isActive = cursor.isActive
       /\ (~cursor.isActive => cursor' = cursor)]_vars

\* witness: a frame has run on an active cursor and moved its smoothed
\* position, and another after the cursor left with the last move untracked
C23_Witness ==
  /\ IsFrame(op)
  /\ ~cursor.isActive
  /\ cursor.sx # 0
  /\ cursor.lx # cursor.x

\* ------------------------------------------------------------------------
\* The canvas calls of draw(context), in order; "throw" ends the sequence
\* where draw raises a TypeError
\* ------------------------------------------------------------------------
\* the lineTo calls of one row from column col on
RECURSIVE drawSegments(_, _, _)
drawSegments(g, row, col) ==
  IF col >= g.cols THEN <<"stroke">>
  ELSE IF row * g.cols + col + 1 \notin DOMAIN g.points THEN <<"throw">>
  ELSE <<"lineTo">> \o drawSegments(g, row, col + 1)

\* one iteration of the row loop
drawRow(g, row) ==
  IF row * g.cols + 1 \notin DOMAIN g.points
  THEN <<"beginPath", "throw">>
  ELSE <<"beginPath", "moveTo">> \o drawSegments(g, row, 1)

Thrown(calls) == calls # <<>> /\ calls[Len(calls)] = "throw"

\* the row loop from row on
RECURSIVE drawRows(_, _)
drawRows(g, row) ==
  IF row >= g.rows THEN <<>>
  ELSE IF Thrown(drawRow(g, row)) THEN drawRow(g, row)
  ELSE drawRow(g, row) \o drawRows(g, row + 1)

drawCalls(context, theme, g) ==
  IF ~theme.truthy \/ ~context THEN <<"throw">>
  ELSE <<"fillRect">> \o drawRows(g, 0)

Count(calls, name) == Cardinality({i \in DOMAIN calls : calls[i] = name})

\* one fill first; per row one beginPath, then moveTo, then lineTo calls
\* only, then the stroke; as many strokes as rows
SinglePass(calls, rows) ==
  /\ calls # <<>>
  /\ calls[1] = "fillRect"
  /\ Count(calls, "fillRect") = 1
  /\ Count(calls, "beginPath") = (IF rows > 0 THEN rows ELSE 0)
  /\ Count(calls, "stroke") = Count(calls, "beginPath")
  /\ \A i \in DOMAIN calls :
        calls[i] = "beginPath" =>
          /\ i + 1 \in DOMAIN calls
          /\ calls[i + 1] = "moveTo"
          /\ \E j \in (i + 2)..Len(calls) :
                /\ calls[j] = "stroke"
                /\ \A k \in (i + 2)..(j - 1) : calls[k] = "lineTo"

\* C24: each draw call issues one background fill first and then, for every
\* grid row, exactly one beginPath and exactly one stroke, in the order
\* beginPath, moveTo, connecting segments, stroke; no row is begun without
\* being stroked.
C24_DrawIsSinglePass ==
  IsFrame(op) => SinglePass(drawCalls(ctx, DrawTheme, grid), grid.rows)

\* ------------------------------------------------------------------------
\* Specification of the update of either engine: the page loads one of the
\* two, part_001 or the cue++ engine, whose points carry waveX and waveY
\* ------------------------------------------------------------------------
CueBuilt == \A i \in DOMAIN grid.points : "waveX" \in DOMAIN grid.points[i]

EnginesInit == PhysicsInit \/ CueFrameInit

EnginesNext ==
  \/ CueBuilt /\ CueFrameNext
  \/ ~CueBuilt /\ PhysicsNext

SpecEngines == EnginesInit /\ [][EnginesNext]_vars

\* the wave displacement <<waveX, waveY>> of either engine for the noise value v
WaveOf(v) ==
  IF CueBuilt
  THEN <<FMul(MathCos(FMulC(v, cueNoiseAmplitude, 1)), cueWaveAmpX),
         FMul(MathSin(FMulC(v, cueNoiseAmplitude, 1)), cueWaveAmpY)>>
  ELSE <<FMul(MathCos(FMul(angleGain, v)), config.waveAmpX),
         FMul(MathSin(FMul(angleGain, v)), CurrentWaveAmpY(config, 0))>>

\* q.current = q.base + w + q's spring offset as the clamp left it, on both axes
PlainSum(q, w) ==
  /\ q.currentX = FAdd(FAdd(q.baseX, w[1]), q.cx)
  /\ q.currentY = FAdd(FAdd(q.baseY, w[2]), q.cy)

\* the same with the x offset scaled by cursorXScale (part_001) or with the
\* sum rounded to a tenth (cue++)
ScaledOrRoundedSum(q, w) ==
  /\ IF CueBuilt
     THEN /\ q.waveX = w[1]
          /\ q.waveY = w[2]
          /\ q.currentX = cueRound(FAdd(FAdd(q.baseX, w[1]), q.cx))
          /\ q.currentY = cueRound(FAdd(FAdd(q.baseY, w[2]), q.cy))
     ELSE /\ q.currentX = FAdd(FAdd(q.baseX, w[1]), FMul(q.cx, cursorXScale))
          /\ q.currentY = FAdd(FAdd(q.baseY, w[2]), q.cy)

\* C25 as stated: after every update, each point's current position equals
\* its base position plus the noise offset of that frame plus its clamped
\* spring offset, on both axes.
C25_CurrentIsPlainSum ==
  [][IsFrame(op') =>
       \A i \in DOMAIN grid'.points :
          \E v \in {0, One} : PlainSum(grid'.points[i], WaveOf(v))]_vars

\* C25, amended: after every update, each point's current y is base y plus
\* the noise offset plus the clamped spring offset, and its current x is
\* base x plus the noise offset plus the clamped spring offset scaled by
\* cursorXScale; in the cue++ engine both coordinates are that sum (unscaled)
\* rounded to the nearest tenth of a pixel.
C25_CurrentIsScaledOrRoundedSum ==
  [][IsFrame(op') =>
       \A i \in DOMAIN grid'.points :
          \E v \in {0, One} : ScaledOrRoundedSum(grid'.points[i], WaveOf(v))]_vars

\* witness: a cue++ frame has left a point with a spring offset whose sum
\* with base and wave is not a whole tenth
C25_Witness ==
  /\ IsFrame(op)
  /\ CueBuilt
  /\ \E i \in DOMAIN grid.points :
        /\ grid.points[i].cx # 0
        /\ grid.points[i].currentX #
             FAdd(FAdd(grid.points[i].baseX, grid.points[i].waveX), grid.points[i].cx)

\* C26: after any sequence of init() calls and frame callbacks, at most one
\* frame callback is pending for the engine, so update and draw run at most
\* once per display frame.
C26_AtMostOneFramePending == rafPending <= 1

\* C27: once destroy() has returned, no later frame callback runs update or
\* draw and none reschedules itself: the frame loop started by init() is
\* stopped by destroy().
C27_NoFrameAfterDestroy ==
  [][(ptrListeners > 0 /\ ~canvas /\ ~ctx) => (frames' = frames /\ grid' = grid)]_vars

\* C28: if destroy() is called while a debounced resize timer is pending,
\* the timer's callback performs no resize on the destroyed canvas and
\* context and raises no error.
C28_PendingTimerHarmlessAfterDestroy ==
  [][(ptrListeners > 0 /\ ~canvas /\ ~ctx /\ timers' # timers) =>
       /\ grid' = grid
       /\ canvasDim' = canvasDim
       /\ op' # "timerThrows"]_vars

\* ------------------------------------------------------------------------
\* The player across calls (app.js): every Audio element made so far with
\* the closure of its listeners, the global audio, the wake lock
\* ------------------------------------------------------------------------
\* if (audio) { audio.pause(); audio = null; }
pauseCurrent(pl) ==
  IF pl.audio = 0 THEN pl
  ELSE [pl EXCEPT !.audio = 0,
                  !.elements[pl.audio].state = IF @ = "failed" THEN @ ELSE "paused"]

\* audio = new Audio(...), its listeners added, audio.play() called
newAudio(pl, kind, urlAlt) ==
  [pl EXCEPT !.elements = Append(@, [kind |-> kind, state |-> "loading",
                                     urlAlt |-> urlAlt, hasTriedAlt |-> FALSE]),
             !.audio = Len(pl.elements) + 1]

\* playStream(url, urlAlt) with no suspended AudioContext: runs to its end
playStreamOn(pl, urlAlt) ==
  [newAudio(pauseCurrent(pl), "primary", urlAlt) EXCEPT !.status = "Connecting...",
                                                        !.stopped = FALSE]

\* requestWakeLock() up to its await: one more request is pending
requestWakeLock(pl) == [pl EXCEPT !.pending = @ + 1]

\* the request resolves: wakeLock = the new sentinel
wakeLockGranted(pl) ==
  [pl EXCEPT !.pending = @ - 1, !.granted = @ + 1,
             !.held = @ \cup {pl.granted + 1}, !.wakeLock = pl.granted + 1]

releaseWakeLock(pl) ==
  IF pl.wakeLock = 0 THEN pl
  ELSE [pl EXCEPT !.held = @ \ {pl.wakeLock}, !.wakeLock = 0]

stopStream(pl) ==
  [releaseWakeLock(pauseCurrent(pl)) EXCEPT !.status = "Stopped", !.stopped = TRUE]

\* the 'playing' listener of element e (of the first or of the alternate element)
onElementPlaying(pl, e) ==
  requestWakeLock([pl EXCEPT !.elements[e].state = "playing", !.status = "Streaming live"])

\* the 'error' listener of element e: the listener of a first element tries
\* the alternate URL once, any other reports the error
onElementError(pl, e) ==
  IF /\ pl.elements[e].kind = "primary"
     /\ pl.elements[e].urlAlt
     /\ ~pl.elements[e].hasTriedAlt
  THEN [newAudio([pl EXCEPT !.elements[e].state = "failed",
                            !.elements[e].hasTriedAlt = TRUE], "alt", FALSE)
          EXCEPT !.status = "Trying alternative stream..."]
  ELSE [pl EXCEPT !.elements[e].state = "failed", !.status = ConnectionError]

\* Audio elements and wake-lock requests explored
MaxElements == 3
MaxLockRequests == 2

PlayerStep(name, pl) ==
  /\ player' = pl
  /\ op' = name
  /\ UNCHANGED <<engineVars, loopVars, themeVars, noiseVars, streamVars, cueVars>>

\* a click on a station card that is not active
SelectStation(urlAlt) ==
  /\ Len(player.elements) < MaxElements
  /\ PlayerStep("select", playStreamOn(player, urlAlt))

\* a click on the active card, or the media session's stop action
StopStreamCall == PlayerStep("stop", stopStream(player))

\* element e starts or resumes playing
ElementPlaying(e) ==
  /\ player.elements[e].state \in {"loading", "playing"}
  /\ player.pending + player.granted < MaxLockRequests
  /\ PlayerStep("playing", onElementPlaying(player, e))

\* element e fails: while loading or playing, or after pause() while its
\* fetch is still under way
ElementError(e) ==
  /\ player.elements[e].state \in {"loading", "playing", "paused"}
  /\ Len(onElementError(player, e).elements) <= MaxElements
  /\ PlayerStep("error", onElementError(player, e))

WakeLockResolves ==
  /\ player.pending > 0
  /\ PlayerStep("lockGranted", wakeLockGranted(player))

\* the request is rejected: the catch block logs it
WakeLockRejects ==
  /\ player.pending > 0
  /\ PlayerStep("lockRefused", [player EXCEPT !.pending = @ - 1])

PlayerNext ==
  \/ \E urlAlt \in BOOLEAN : SelectStation(urlAlt)
  \/ StopStreamCall
  \/ \E e \in DOMAIN player.elements : ElementPlaying(e)
  \/ \E e \in DOMAIN player.elements : ElementError(e)
  \/ WakeLockResolves
  \/ WakeLockRejects

SpecPlayer == LoadedIn({<<0, 0>>}) /\ [][PlayerNext]_vars

Sounding(pl) == {e \in DOMAIN pl.elements : pl.elements[e].state \in {"loading", "playing"}}

\* C29: an 'error' event from an audio element that stopStream() stopped or
\* that a newer playStream() replaced neither starts playback nor replaces
\* the current audio element; after stopStream() no audio plays until the
\* next station selection; at most one element plays at a time.
C29_StaleErrorIsInert ==
  [][/\ \A e \in DOMAIN player.elements :
           (player.elements[e].state = "paused" /\ player'.elements[e].state = "failed")
              => (player'.audio = player.audio /\ Sounding(player') = Sounding(player))
     /\ player'.stopped => Sounding(player') = {}
     /\ Cardinality(Sounding(player')) <= 1]_vars

\* C30: for every interleaving of 'playing' events, completions of wake-lock
\* requests and stopStream(), once stopStream() has run and every pending
\* wake-lock request has resolved, no wake lock is still held.
C30_NoLockHeldAfterStop ==
  (player.stopped /\ player.pending = 0) => player.held = {}
====
